---- MODULE Spec2Model ----
(***************************************************************************)
(* Rotation control loop of the core-rotation plugin: the persisted        *)
(* rotation-state.json record, the two hook handlers (onAfterCompaction,   *)
(* onGatewayStartup), the rotate / rotatePhase2 / finishRotation sequence, *)
(* the guards, and the write-to-tmp-then-rename state store.               *)
(*                                                                         *)
(* Each handler is a sequence of steps, one per persisted write or file    *)
(* side effect, so that a process crash can fall between any two of them.  *)
(* Time is counted in minutes; the handlers are synchronous, so the clock  *)
(* advances and the host writes transcripts only between calls.            *)
(***************************************************************************)
EXTENDS Integers, Sequences, FiniteSets, TLC

(***************************************************************************)
(* Bounds of the model.                                                    *)
(***************************************************************************)
MaxCount == 2
MaxTime == 2

(***************************************************************************)
(* Values.                                                                 *)
(***************************************************************************)
\* `null` of a string-valued field
NULL == "null"
\* `null` of a number- or timestamp-valued field
NONE == -1
\* `null` of newSessionId (an id is <<Date.now(), Math.random()>>)
NOID == <<>>
\* the id 'unknown' that finishRotation records for a null newSessionId
UNKNOWNID == <<NONE, NONE>>

RotationStateName == {"IDLE", "PENDING", "ARCHIVING", "ARCHIVED", "INJECTED", "COOLDOWN"}

VALID_TRANSITIONS_NoRollback ==
    [IDLE      |-> {"PENDING"},
     PENDING   |-> {"IDLE", "ARCHIVING"},
     ARCHIVING |-> {"ARCHIVED"},
     ARCHIVED  |-> {"INJECTED"},
     INJECTED  |-> {"COOLDOWN"},
     COOLDOWN  |-> {"IDLE"}]

VALID_TRANSITIONS_Loose ==
    [IDLE      |-> {"PENDING", "ARCHIVED"},
     PENDING   |-> {"IDLE", "ARCHIVING"},
     ARCHIVING |-> {"ARCHIVED", "PENDING"},
     ARCHIVED  |-> {"INJECTED"},
     INJECTED  |-> {"COOLDOWN"},
     COOLDOWN  |-> {"IDLE"}]

VALID_TRANSITIONS ==
    [IDLE      |-> {"PENDING"},
     PENDING   |-> {"IDLE", "ARCHIVING"},
     ARCHIVING |-> {"ARCHIVED", "PENDING"},
     ARCHIVED  |-> {"INJECTED"},
     INJECTED  |-> {"COOLDOWN"},
     COOLDOWN  |-> {"IDLE"}]

DEFAULT_STATE ==
    [version                   |-> 1,
     state                     |-> "IDLE",
     startedAt                 |-> NONE,
     oldSessionId              |-> NULL,
     oldSessionFile            |-> NULL,
     archivePath               |-> NULL,
     newSessionId              |-> NOID,
     cooldownUntil             |-> NONE,
     triggerCompactionCount    |-> NONE,
     cumulativeCompactionCount |-> 0,
     injectedTokensEstimate    |-> NONE,
     rotationHistory           |-> <<>>,
     error                     |-> NULL,
     updatedAt                 |-> 0]

\* The configurations loadConfig can return (cooldown and circuit-breaker
\* numbers in minutes and counts); `enabled` is read anew by every event.
Configs ==
    { [compactionCountThreshold |-> 2,
       cooldown       |-> [minCompactions |-> 2, minMinutes |-> 2],
       circuitBreaker |-> [maxRotations |-> 2, windowMinutes |-> 2]],
      [compactionCountThreshold |-> 1,
       cooldown       |-> [minCompactions |-> 1, minMinutes |-> 1],
       circuitBreaker |-> [maxRotations |-> 1, windowMinutes |-> 2]],
      [compactionCountThreshold |-> 1,
       cooldown       |-> [minCompactions |-> 2, minMinutes |-> 1],
       circuitBreaker |-> [maxRotations |-> 2, windowMinutes |-> 2]],
      [compactionCountThreshold |-> 1,
       cooldown       |-> [minCompactions |-> 1, minMinutes |-> 2],
       circuitBreaker |-> [maxRotations |-> 1, windowMinutes |-> 2]] }

\* Session ids of the tracked context; the transcript of session s is
\* sessions/s.jsonl and its archive is sessions/archive/s.jsonl.
Sessions == {"s1"}

\* Math.random() suffixes of a new session id
Randoms == {1, 2}

\* Values buildInjectionPayload can return as estimatedTokens
Estimates == {5}

(***************************************************************************)
(* Files.  A JSONL file is absent or a sequence of lines, each ended by a  *)
(* newline (the empty sequence is the empty file); a line is named         *)
(* by what it parses to: a user message, an assistant message, an          *)
(* assistant message with a tool_use block (id t1 or t2), a tool message   *)
(* with the tool_result of t1 or of t2, an empty line, or text that is not *)
(* JSON.                                                                   *)
(***************************************************************************)
Lines == {"user", "asst", "use", "res", "use2", "res2", "blank", "bad"}

\* ids of the tool_use blocks of a line
ToolUseIds(l) ==
    IF l = "use" THEN {"t1"} ELSE IF l = "use2" THEN {"t2"} ELSE {}

\* tool_use_id of the tool_result blocks of a line
ToolResultIds(l) ==
    IF l = "res" THEN {"t1"} ELSE IF l = "res2" THEN {"t2"} ELSE {}

Absent == [exists |-> FALSE, lines |-> <<>>]
FileOf(ls) == [exists |-> TRUE, lines |-> ls]

\* Contents the host leaves in a transcript
Transcripts ==
    { Absent, FileOf(<<>>), FileOf(<<"user", "asst">>), FileOf(<<"user", "use">>) }

\* The state file (and its .tmp): absent, a complete record, or a torn write
NoFile == [kind |-> "none", rec |-> DEFAULT_STATE]
Torn == [kind |-> "torn", rec |-> DEFAULT_STATE]
Stored(r) == [kind |-> "ok", rec |-> r]


(***************************************************************************)
(* Pure functions of the handler.                                          *)
(***************************************************************************)
RECURSIVE SelectNonEmpty(_)
\* .split('\n').filter(Boolean): the non-empty lines of a file
SelectNonEmpty(ls) ==
    IF ls = <<>> THEN <<>>
    ELSE IF Head(ls) = "blank" THEN SelectNonEmpty(Tail(ls))
    ELSE <<Head(ls)>> \o SelectNonEmpty(Tail(ls))

\* JSON.parse succeeds on the line
Parses(l) == l \in {"user", "asst", "use", "res", "use2", "res2"}

RECURSIVE TrimStart(_)
\* the lines without the leading empty ones
TrimStart(ls) ==
    IF ls = <<>> THEN <<>>
    ELSE IF Head(ls) = "blank" THEN TrimStart(Tail(ls))
    ELSE ls

RECURSIVE TrimEnd(_)
\* the lines without the trailing empty ones
TrimEnd(ls) ==
    IF ls = <<>> THEN <<>>
    ELSE IF ls[Len(ls)] = "blank" THEN TrimEnd(SubSeq(ls, 1, Len(ls) - 1))
    ELSE ls

\* content.trim().split('\n'): a file of empty lines only trims to one
\* empty string
TrimSplit(ls) ==
    LET t == TrimEnd(TrimStart(ls))
    IN  IF t = <<>> THEN <<"blank">> ELSE t

validateArchiveNoCount(archive, original) ==
    IF ~archive.exists THEN FALSE
    ELSE LET archiveLines == SelectNonEmpty(archive.lines)
         IN  IF Len(archiveLines) = 0 THEN FALSE
             ELSE IF ~Parses(archiveLines[1]) THEN FALSE
             ELSE IF ~Parses(archiveLines[Len(archiveLines)]) THEN FALSE
             ELSE original.exists

validateArchive(archive, original) ==
    IF ~archive.exists THEN FALSE
    ELSE LET archiveLines == SelectNonEmpty(archive.lines)
         IN  IF Len(archiveLines) = 0 THEN FALSE
             ELSE IF ~Parses(archiveLines[1]) THEN FALSE
             ELSE IF ~Parses(archiveLines[Len(archiveLines)]) THEN FALSE
             ELSE IF ~original.exists THEN FALSE
             ELSE Len(archiveLines) = Len(SelectNonEmpty(original.lines))

\* Number of trailing transcript lines hasActiveTasks scans
TailWindow == 50

hasActiveTasksNever(file) == FALSE

hasActiveTasks(file) ==
    IF ~file.exists \/ file.lines = <<>> THEN FALSE
    ELSE LET lines == TrimSplit(file.lines)
             n == Len(lines)
             start == IF n - TailWindow > 0 THEN n - TailWindow ELSE 0
             window == (start + 1)..n
             toolUseIds == UNION {ToolUseIds(lines[i]) : i \in window}
             toolResultIds == UNION {ToolResultIds(lines[i]) : i \in window}
         IN  \E id \in toolUseIds : id \notin toolResultIds

isInCooldownFirstEntry(state, cfg, currentCompactionCount, now) ==
    IF state.cooldownUntil # NONE /\ state.cooldownUntil > now THEN TRUE
    ELSE IF Len(state.rotationHistory) = 0 THEN FALSE
    ELSE LET last == state.rotationHistory[1]
         IN  IF now - last.rotatedAt < cfg.cooldown.minMinutes THEN TRUE
             ELSE IF currentCompactionCount # NONE
                  THEN currentCompactionCount - last.triggerCompactionCount
                           < cfg.cooldown.minCompactions
                  ELSE FALSE

isInCooldownNever(state, cfg, currentCompactionCount, now) == FALSE

\* currentCompactionCount is NONE when the optional argument is left out
isInCooldown(state, cfg, currentCompactionCount, now) ==
    IF state.cooldownUntil # NONE /\ state.cooldownUntil > now THEN TRUE
    ELSE IF Len(state.rotationHistory) = 0 THEN FALSE
    ELSE LET last == state.rotationHistory[Len(state.rotationHistory)]
         IN  IF now - last.rotatedAt < cfg.cooldown.minMinutes THEN TRUE
             ELSE IF currentCompactionCount # NONE
                  THEN currentCompactionCount - last.triggerCompactionCount
                           < cfg.cooldown.minCompactions
                  ELSE FALSE

RecentRotations(state, cfg, now) ==
    {i \in 1..Len(state.rotationHistory) :
        state.rotationHistory[i].rotatedAt > now - cfg.circuitBreaker.windowMinutes}

checkCircuitBreakerOpen(state, cfg, now) == TRUE

checkCircuitBreakerUnwindowed(state, cfg, now) ==
    Len(state.rotationHistory) < cfg.circuitBreaker.maxRotations

checkCircuitBreaker(state, cfg, now) ==
    Cardinality(RecentRotations(state, cfg, now)) < cfg.circuitBreaker.maxRotations

getBackoffMultiplierAll(state, cfg, now) ==
    IF Len(state.rotationHistory) = 0 THEN 100
    ELSE IF Len(state.rotationHistory) = 1 THEN 67
    ELSE 33

\* getBackoffMultiplier, in hundredths (1.0, 0.67, 0.33); now is Date.now()
getBackoffMultiplier(state, cfg, now) ==
    LET windowStart == now - cfg.circuitBreaker.windowMinutes
        consecutiveRecent ==
            Cardinality({i \in 1..Len(state.rotationHistory) :
                            state.rotationHistory[i].rotatedAt > windowStart})
    IN  IF consecutiveRecent = 0 THEN 100
        ELSE IF consecutiveRecent = 1 THEN 67
        ELSE 33

(***************************************************************************)
(* Texts of the injection payload.  A text is known by its lines, each by  *)
(* its number of characters: <<0>> is the empty string, which is also what *)
(* readFileOrEmpty returns for a missing file.  A daily log is known by    *)
(* its number of characters alone.  A transcript line read by              *)
(* extractRecentMessages is known by the role of the record it parses to   *)
(* ("bad" when JSON.parse throws) and by its content turned into a string, *)
(* of which the number of characters is kept (0 for the empty string).     *)
(***************************************************************************)
RECURSIVE SumSeq(_)
SumSeq(ns) == IF ns = <<>> THEN 0 ELSE Head(ns) + SumSeq(Tail(ns))

\* text.length of lines.join('\n')
TextChars(lines) == SumSeq(lines) + Len(lines) - 1

\* a string is truthy when it is not empty
Truthy(chars) == chars # NONE /\ chars > 0

Msg(role, content) == [role |-> role, content |-> content]

\* readFileOrEmpty(path): the file's lines, none when it cannot be read
readFileOrEmpty(files, path) ==
    IF path \in DOMAIN files /\ files[path].exists THEN files[path].lines ELSE <<>>

RECURSIVE ScanBack(_, _, _, _, _)
\* the loop of extractRecentMessages from line i down to the first line
ScanBack(lines, i, count, pendingAssistant, pairs) ==
    IF ~(i >= 1 /\ Len(pairs) < count) THEN pairs
    ELSE LET msg == lines[i]
         IN  IF msg.role = "assistant" /\ ~Truthy(pendingAssistant)
             THEN ScanBack(lines, i - 1, count, msg.content, pairs)
             ELSE IF msg.role = "user" /\ Truthy(pendingAssistant)
             THEN ScanBack(lines, i - 1, count, NONE,
                           <<[user |-> msg.content, assistant |-> pendingAssistant]>> \o pairs)
             ELSE ScanBack(lines, i - 1, count, pendingAssistant, pairs)

\* extractRecentMessages(sessionFile, count); "" is the empty path
extractRecentMessages(files, sessionFile, count) ==
    IF sessionFile = "" THEN <<>>
    ELSE LET content == readFileOrEmpty(files, sessionFile)
         IN  IF content = <<>> THEN <<>>
             ELSE ScanBack(content, Len(content), count, NONE, <<>>)

\* Math.ceil(text.length / 4)
estimateTokens(chars) == (chars + 3) \div 4

Digits(n) == IF n < 10 THEN 1 ELSE 2

\* characters of an id or path written into the metadata
Chars(s) == IF s = "unknown" THEN 7 ELSE 2

\* JSON.stringify(meta).length: 114 characters of keys and punctuation, the
\* two numbers, the count inside the reason, the id and the archive path
\* (sessions/archive/<id>.jsonl below the agent directory)
MetaChars(meta) ==
    114 + Digits(meta.rotationNumber) + 2 * Digits(meta.compactionCount)
        + Chars(meta.previousSessionId)
        + (IF meta.archivePath = "unknown" THEN 7 ELSE 23 + Chars(meta.archivePath))

PairsChars(pairs) == SumSeq([i \in 1..Len(pairs) |-> pairs[i].user + pairs[i].assistant])

estimatePayloadTokens(memory, today, yesterday, pairs, meta) ==
    estimateTokens(TextChars(memory) + today + yesterday + PairsChars(pairs)
                     + MetaChars(meta))

\* Math.floor(n * 0.7) for a line count n < 330.  The double nearest to 0.7
\* lies below 7/10, and for the counts listed the product rounded to a double
\* stays below the integer 7n/10 (90 * 0.7 is 62.99999999999999), so that the
\* floor is one less than floor(7n/10); for every other count both agree.
RoundedBelow == {90, 170, 180}

headEnd(n) == IF n \in RoundedBelow THEN (n * 7) \div 10 - 1 ELSE (n * 7) \div 10

\* Math.floor(n * 0.8), which equals floor(8n/10) for every n < 330
tailStart(n) == (n * 8) \div 10

\* the element '\n[... truncated for token budget ...]\n' once joined by
\* '\n': an empty line, the 36 characters of the marker, an empty line
TruncationMarker == <<0, 36, 0>>

truncateMemoryDropsNothing(lines) ==
    SubSeq(lines, 1, headEnd(Len(lines))) \o TruncationMarker
      \o SubSeq(lines, headEnd(Len(lines)) + 1, Len(lines))

\* lines.slice(0, headEnd), the marker, lines.slice(tailStart)
truncateMemory(lines) ==
    SubSeq(lines, 1, headEnd(Len(lines))) \o TruncationMarker
      \o SubSeq(lines, tailStart(Len(lines)) + 1, Len(lines))

\* pairs.slice(-n)
LastPairs(pairs, n) ==
    IF Len(pairs) <= n THEN pairs ELSE SubSeq(pairs, Len(pairs) - n + 1, Len(pairs))

overBudgetAlways(total, tokenBudget) == TRUE

overBudget(total, tokenBudget) == total > tokenBudget

\* Math.floor(contextWindow * injectionBudgetPercent * backoffMultiplier),
\* the percentage and the multiplier in hundredths
tokenBudgetOf(cfg, backoffMultiplier) ==
    (cfg.contextWindow * cfg.injectionBudgetPercent * backoffMultiplier) \div 10000

\* total = estimatePayloadTokens(...) after a truncation step; `steps`
\* records for each step whether it was applied and the estimate before it
Reestimated(p, applied) ==
    [p EXCEPT !.estimatedTokens =
                  IF applied
                  THEN estimatePayloadTokens(p.longTermMemory, p.todayLog, p.yesterdayLog,
                                             p.recentMessages, p.metadata)
                  ELSE @,
              !.steps = Append(@, [applied |-> applied, before |-> p.estimatedTokens])]

\* Step 1: drop yesterday's log
DropYesterday(p) ==
    IF overBudget(p.estimatedTokens, p.tokenBudget) /\ Truthy(p.yesterdayLog)
    THEN Reestimated([p EXCEPT !.yesterdayLog = 0], TRUE)
    ELSE Reestimated(p, FALSE)

\* Step 2: reduce message pairs to 3
ReducePairs(p) ==
    IF overBudget(p.estimatedTokens, p.tokenBudget) /\ Len(p.recentMessages) > 3
    THEN Reestimated([p EXCEPT !.recentMessages = LastPairs(@, 3)], TRUE)
    ELSE Reestimated(p, FALSE)

\* Step 3: truncate MEMORY.md
TruncateMemoryStep(p) ==
    IF overBudget(p.estimatedTokens, p.tokenBudget) /\ Truthy(TextChars(p.longTermMemory))
    THEN Reestimated([p EXCEPT !.longTermMemory = truncateMemory(@)], TRUE)
    ELSE Reestimated(p, FALSE)

\* Step 4: no today log and one pair
Minimal(p) ==
    IF overBudget(p.estimatedTokens, p.tokenBudget)
    THEN Reestimated([p EXCEPT !.todayLog = 0, !.recentMessages = LastPairs(@, 1)], TRUE)
    ELSE Reestimated(p, FALSE)

\* buildInjectionPayload(config, ctx, agentDir, state) at time now, with
\* ws the files of the workspace and the sessions directory
buildInjectionPayload(cfg, ws, state, now) ==
    LET sessionFile  == IF state.oldSessionFile = NULL THEN "" ELSE state.oldSessionFile
        messagePairs == extractRecentMessages(ws.sessions, sessionFile, cfg.recentMessagePairs)
        metadata ==
            [rotationNumber    |-> Len(state.rotationHistory) + 1,
             previousSessionId |-> IF state.oldSessionId = NULL THEN "unknown"
                                   ELSE state.oldSessionId,
             archivePath       |-> IF state.archivePath = NULL THEN "unknown"
                                   ELSE state.archivePath,
             compactionCount   |-> IF state.triggerCompactionCount = NONE THEN 0
                                   ELSE state.triggerCompactionCount]
        p0 == [longTermMemory  |-> ws.memory,
               todayLog        |-> ws.today,
               yesterdayLog    |-> ws.yesterday,
               recentMessages  |-> messagePairs,
               metadata        |-> metadata,
               estimatedTokens |-> estimatePayloadTokens(ws.memory, ws.today, ws.yesterday,
                                                         messagePairs, metadata),
               tokenBudget     |-> tokenBudgetOf(cfg, getBackoffMultiplier(state, cfg, now)),
               steps           |-> <<>>]
    IN  Minimal(TruncateMemoryStep(ReducePairs(DropYesterday(p0))))

formatInjectionMessageAllHeaders(payload) ==
    <<"banner", "archivedAfter", "inheritedMemory", "longTermMemory", "todayLog",
      "yesterdayLog", "recentConversation">>
      \o [i \in 1..Len(payload.recentMessages) |-> "pair"]
      \o <<"", "rotationContext", "rotationNumber", "reason", "previousSession", "archive",
           "", "closing">>

formatInjectionMessageLogsSwapped(payload) ==
    <<"banner", "archivedAfter", "inheritedMemory">>
      \o (IF Truthy(TextChars(payload.longTermMemory)) THEN <<"longTermMemory">> ELSE <<>>)
      \o (IF Truthy(payload.yesterdayLog) THEN <<"yesterdayLog">> ELSE <<>>)
      \o (IF Truthy(payload.todayLog) THEN <<"todayLog">> ELSE <<>>)
      \o (IF Len(payload.recentMessages) > 0
          THEN <<"recentConversation">> \o [i \in 1..Len(payload.recentMessages) |-> "pair"]
                 \o <<"">>
          ELSE <<>>)
      \o <<"rotationContext", "rotationNumber", "reason", "previousSession", "archive",
           "", "closing">>

\* formatInjectionMessage: the strings pushed to `sections`, each named by
\* what it holds
formatInjectionMessage(payload) ==
    <<"banner", "archivedAfter", "inheritedMemory">>
      \o (IF Truthy(TextChars(payload.longTermMemory)) THEN <<"longTermMemory">> ELSE <<>>)
      \o (IF Truthy(payload.todayLog) THEN <<"todayLog">> ELSE <<>>)
      \o (IF Truthy(payload.yesterdayLog) THEN <<"yesterdayLog">> ELSE <<>>)
      \o (IF Len(payload.recentMessages) > 0
          THEN <<"recentConversation">> \o [i \in 1..Len(payload.recentMessages) |-> "pair"]
                 \o <<"">>
          ELSE <<>>)
      \o <<"rotationContext", "rotationNumber", "reason", "previousSession", "archive",
           "", "closing">>

(***************************************************************************)
(* State store.                                                            *)
(***************************************************************************)
statePath == "state"

tmpPathInPlace == "state"

\* rotation-state.json.tmp, the file writeState and patchState write
tmpPath == "tmp"

\* readState: the parsed record, or DEFAULT_STATE stamped with the current
\* time when the file is absent or does not parse
readState(files, now) ==
    IF files[statePath].kind = "ok" THEN files[statePath].rec
    ELSE [DEFAULT_STATE EXCEPT !.updatedAt = now]

\* {...record, ...updates}
Spread(record, updates) ==
    [f \in DOMAIN record |-> IF f \in DOMAIN updates THEN updates[f] ELSE record[f]]

writeStateRecordFromDefault(currentState, newStateName, updates, now) ==
    [Spread(DEFAULT_STATE, updates) EXCEPT !.state = newStateName, !.updatedAt = now]

\* the record writeState builds (lines 394-399)
writeStateRecord(currentState, newStateName, updates, now) ==
    [Spread(currentState, updates) EXCEPT !.state = newStateName, !.updatedAt = now]

patchStateRecordFromDefault(currentState, updates, now) ==
    [Spread(DEFAULT_STATE, updates) EXCEPT !.updatedAt = now]

\* the record patchState builds (lines 418-422)
patchStateRecord(currentState, updates, now) ==
    [Spread(currentState, updates) EXCEPT !.updatedAt = now]


(***************************************************************************)
(* State.                                                                  *)
(***************************************************************************)
VARIABLES
    fs,           \* rotation-state.json ("state") and rotation-state.json.tmp ("tmp")
    transcripts,  \* sessions/<id>.jsonl, by session id
    archives,     \* sessions/archive/<id>.jsonl, by session id
    injection,    \* rotation-injection.md: NONE, or the compaction count it names
    clock,        \* Date.now(), in minutes
    config,       \* what loadConfig returns
    pc,           \* position of the running handler, "idle" between calls
    cont,         \* where the handler continues after renameSync
    via,          \* the function whose write is awaiting renameSync
    handler,      \* the handler running or last run: "event", "startup", "none"
    ev,           \* the event and context of the call
    cur,          \* the handler's local `state`
    startRec,     \* the record read at the start of the call
    startDisk,    \* the archives and the injection file at the start of the call
    trace,        \* states committed by writeState during the call, in order
    ended,        \* how the last call ended: "returned", "threw", "crashed"
    req,          \* newStateName of a direct writeState call, else "none"
    probe,        \* the last direct call of a guard: its arguments and result
    fault         \* an 'Invalid state transition' error was thrown

vars == <<fs, transcripts, archives, injection, clock, config, pc, cont, via,
          handler, ev, cur, startRec, startDisk, trace, ended, req, probe, fault>>

disk == <<transcripts, archives, injection>>
env == <<clock, config, req, probe>>
call == <<handler, ev, startRec, startDisk>>

NoEvent == [sessionFile |-> NULL, enabled |-> FALSE, hasDir |-> FALSE]

NoDisk == [archives |-> [s \in Sessions |-> Absent], injection |-> NONE]

NoProbe == [fn |-> "none", state |-> DEFAULT_STATE, cfg |-> CHOOSE c \in Configs : TRUE,
            count |-> NONE, now |-> 0, result |-> FALSE]

Init ==
    /\ fs = [state |-> NoFile, tmp |-> NoFile]
    /\ transcripts \in [Sessions -> {FileOf(<<"user", "asst">>)}]
    /\ archives = [s \in Sessions |-> Absent]
    /\ injection = NONE
    /\ clock = 0
    /\ config \in Configs
    /\ pc = "idle"
    /\ cont = "none"
    /\ via = "none"
    /\ handler = "none"
    /\ ev = NoEvent
    /\ cur = DEFAULT_STATE
    /\ startRec = DEFAULT_STATE
    /\ startDisk = NoDisk
    /\ trace = <<>>
    /\ ended = "none"
    /\ req = "none"
    /\ probe = NoProbe
    /\ fault = FALSE

(***************************************************************************)
(* Ways a handler step ends.                                               *)
(***************************************************************************)
\* the handler returns
Return ==
    /\ pc' = "idle" /\ cont' = "none" /\ via' = "none" /\ cur' = DEFAULT_STATE
    /\ ended' = "returned"

\* an exception leaves the handler
Throw ==
    /\ pc' = "idle" /\ cont' = "none" /\ via' = "none" /\ cur' = DEFAULT_STATE
    /\ ended' = "threw"

\* writeFileSync(tmpPath, JSON.stringify(newState)); renameSync follows
Stage(newState, writer, k) ==
    /\ fs' = [fs EXCEPT ![tmpPath] = Stored(newState)]
    /\ cur' = newState
    /\ via' = writer
    /\ pc' = "rename"
    /\ cont' = k
    /\ ended' = "running"

\* writeState(agentDir, currentState, newStateName, updates), up to the
\* write of the .tmp file; the handler continues at k after the rename
writeState(currentState, newStateName, updates, k) ==
    IF newStateName \notin VALID_TRANSITIONS[currentState.state]
    THEN /\ Throw
         /\ fault' = TRUE
         /\ UNCHANGED fs
    ELSE /\ Stage(writeStateRecord(currentState, newStateName, updates, clock),
                  "writeState", k)
         /\ UNCHANGED fault

\* patchState(agentDir, currentState, updates), up to the write of the .tmp file
patchState(currentState, updates, k) ==
    /\ Stage(patchStateRecord(currentState, updates, clock), "patchState", k)
    /\ UNCHANGED fault

\* renameSync(tmpPath, statePath), and the return of writeState / patchState
Rename ==
    /\ pc = "rename"
    /\ fs' = IF tmpPath = statePath THEN fs
             ELSE [fs EXCEPT ![statePath] = fs[tmpPath], ![tmpPath] = NoFile]
    /\ trace' = IF via = "writeState" THEN Append(trace, cur.state) ELSE trace
    /\ via' = "none"
    /\ IF cont = "return"
       THEN /\ pc' = "idle" /\ cont' = "none" /\ cur' = DEFAULT_STATE
            /\ ended' = "returned"
       ELSE /\ pc' = cont /\ cont' = "none"
            /\ UNCHANGED <<cur, ended>>
    /\ UNCHANGED <<disk, env, call, fault>>


(***************************************************************************)
(* onAfterCompaction                                                       *)
(***************************************************************************)
cumulativeCountTwice(state) == state.cumulativeCompactionCount + 2

\* line 63: the self-tracked count of this event
cumulativeCount(state) == state.cumulativeCompactionCount + 1

CounterPatchResetting(n) == [cumulativeCompactionCount |-> n, state |-> "IDLE"]

\* line 65: the updates handed to patchState
CounterPatch(n) == [cumulativeCompactionCount |-> n]

NotIdleNever(state) == FALSE

\* line 75: a rotation is in flight
NotIdle(state) == state.state # "IDLE"

belowThresholdNever(count, cfg) == FALSE

\* line 78: the count has not reached the threshold
belowThreshold(count, cfg) == count < cfg.compactionCountThreshold

CooldownExpiredAlways(state, now) == TRUE

\* lines 69 and 138: the cooldown has run out
CooldownExpired(state, now) ==
    state.cooldownUntil # NONE /\ state.cooldownUntil <= now

\* lines 52-65: resolve the agent directory, load the config, read the
\* state and persist the incremented counter
AfterCompaction(sessionFile, enabled, hasDir) ==
    /\ pc = "idle"
    /\ readState(fs, clock).cumulativeCompactionCount < MaxCount
    /\ handler' = "event"
    /\ ev' = [sessionFile |-> sessionFile, enabled |-> enabled, hasDir |-> hasDir]
    /\ startRec' = readState(fs, clock)
    /\ startDisk' = [archives |-> archives, injection |-> injection]
    /\ trace' = <<>>
    /\ IF ~hasDir \/ ~enabled
       THEN /\ Return
            /\ UNCHANGED <<fs, fault>>
       ELSE LET state == readState(fs, clock)
            IN  patchState(state, CounterPatch(cumulativeCount(state)), "guards")
    /\ UNCHANGED <<disk, env>>

\* lines 157-169: rotate() up to the IDLE -> PENDING write
rotate(sessionFile, count) ==
    LET state == readState(fs, clock)
    IN  writeState(state, "PENDING",
                   [startedAt              |-> clock,
                    oldSessionId           |-> sessionFile,
                    oldSessionFile         |-> sessionFile,
                    triggerCompactionCount |-> count],
                   "archiving")

\* lines 67-90: cooldown expiry, the guards, and the start of a rotation
Guards ==
    /\ pc = "guards"
    /\ LET state == cur
           count == cur.cumulativeCompactionCount
       IN  IF state.state = "COOLDOWN"
           THEN IF CooldownExpired(state, clock)
                THEN writeState(state, "IDLE", [cooldownUntil |-> NONE], "return")
                ELSE Return /\ UNCHANGED <<fs, fault>>
           ELSE IF \/ NotIdle(state)
                   \/ belowThreshold(count, config)
                   \/ ~checkCircuitBreaker(state, config, clock)
                   \/ isInCooldown(state, config, count, clock)
                   \/ hasActiveTasks(transcripts[ev.sessionFile])
                THEN Return /\ UNCHANGED <<fs, fault>>
                ELSE rotate(ev.sessionFile, count)
    /\ UNCHANGED <<disk, env, call, trace>>

\* lines 171-177: PENDING -> ARCHIVING, recording the archive path first
Archiving ==
    /\ pc = "archiving"
    /\ writeState(cur, "ARCHIVING", [archivePath |-> ev.sessionFile], "copy")
    /\ UNCHANGED <<disk, env, call, trace>>

copyFileSyncMoving(sources, targets, src, dst) ==
    [transcripts |-> [sources EXCEPT ![src] = Absent],
     archives    |-> [targets EXCEPT ![dst] = sources[src]]]

\* copyFileSync(src, dst): the two directories after the copy
copyFileSync(sources, targets, src, dst) ==
    [transcripts |-> sources,
     archives    |-> [targets EXCEPT ![dst] = sources[src]]]

\* lines 179-189: copy the transcript, validate the copy, then commit
\* ARCHIVED or roll back to PENDING
CopyAndValidate ==
    /\ pc = "copy"
    /\ LET source == transcripts[ev.sessionFile]
           copied == copyFileSync(transcripts, archives, ev.sessionFile, cur.archivePath)
       IN  IF ~source.exists
           THEN /\ Throw
                /\ UNCHANGED <<fs, fault, archives, transcripts>>
           ELSE /\ archives' = copied.archives
                /\ transcripts' = copied.transcripts
                /\ IF ~validateArchive(copied.archives[cur.archivePath],
                                       copied.transcripts[ev.sessionFile])
                   THEN writeState(cur, "PENDING", [archivePath |-> NULL], "rollback")
                   ELSE writeState(cur, "ARCHIVED", <<>>, "inject")
    /\ UNCHANGED <<injection, env, call, trace>>

\* line 184: PENDING -> IDLE with the error recorded
Rollback ==
    /\ pc = "rollback"
    /\ writeState(cur, "IDLE", [error |-> "Archive validation failed"], "return")
    /\ UNCHANGED <<disk, env, call, trace>>

(***************************************************************************)
(* rotatePhase2 and finishRotation                                         *)
(***************************************************************************)
newSessionIdStale(now, rnd) == <<0, rnd>>

newSessionIdMissing(now, rnd) == NOID

\* line 208: `rotation-${Date.now()}-${Math.random()...}`
newSessionId(now, rnd) == <<now, rnd>>

\* lines 201-214: build and write the injection, ARCHIVED -> INJECTED
Inject(rnd, estimatedTokens) ==
    /\ pc = "inject"
    /\ injection' = IF cur.triggerCompactionCount = NONE THEN 0
                    ELSE cur.triggerCompactionCount
    /\ writeState(cur, "INJECTED",
                  [newSessionId           |-> newSessionId(clock, rnd),
                   injectedTokensEstimate |-> estimatedTokens],
                  "finish")
    /\ UNCHANGED <<transcripts, archives, env, call, trace>>

HistoryEntryNoTrigger(state, now) ==
    [rotatedAt              |-> now,
     oldSessionId           |-> IF state.oldSessionId = NULL THEN "unknown"
                                ELSE state.oldSessionId,
     newSessionId           |-> IF state.newSessionId = NOID THEN UNKNOWNID
                                ELSE state.newSessionId,
     triggerCompactionCount |-> 0,
     injectedTokensEstimate |-> IF state.injectedTokensEstimate = NONE THEN 0
                                ELSE state.injectedTokensEstimate]

\* lines 221-227: the history entry of the rotation
HistoryEntry(state, now) ==
    [rotatedAt              |-> now,
     oldSessionId           |-> IF state.oldSessionId = NULL THEN "unknown"
                                ELSE state.oldSessionId,
     newSessionId           |-> IF state.newSessionId = NOID THEN UNKNOWNID
                                ELSE state.newSessionId,
     triggerCompactionCount |-> IF state.triggerCompactionCount = NONE THEN 0
                                ELSE state.triggerCompactionCount,
     injectedTokensEstimate |-> IF state.injectedTokensEstimate = NONE THEN 0
                                ELSE state.injectedTokensEstimate]

historyOnlyEntry(state, now) == <<HistoryEntry(state, now)>>

historyTwice(state, now) ==
    state.rotationHistory \o <<HistoryEntry(state, now), HistoryEntry(state, now)>>

\* line 228: the history with the entry appended
history(state, now) == Append(state.rotationHistory, HistoryEntry(state, now))

cooldownUntilNow(now, cfg) == now

cooldownUntilNever(now, cfg) == NONE

\* line 231
cooldownUntil(now, cfg) == now + cfg.cooldown.minMinutes

\* lines 219-237: INJECTED -> COOLDOWN with the history entry appended
finishRotation ==
    /\ pc = "finish"
    /\ writeState(cur, "COOLDOWN",
                  [cooldownUntil   |-> cooldownUntil(clock, config),
                   rotationHistory |-> history(cur, clock),
                   error           |-> NULL],
                  "return")
    /\ UNCHANGED <<disk, env, call, trace>>


(***************************************************************************)
(* onGatewayStartup                                                        *)
(***************************************************************************)
archiveRecoverableNever(state) == FALSE

\* line 109: the archive named by the record is a complete copy
archiveRecoverable(state) ==
    /\ state.archivePath # NULL
    /\ state.oldSessionFile # NULL
    /\ validateArchive(archives[state.archivePath], transcripts[state.oldSessionFile])

\* lines 93-144: the agent directory check and the recovery switch; the
\* ARCHIVED and INJECTED cases hand the record read from disk to
\* rotatePhase2 and finishRotation
GatewayStartup(hasDir) ==
    /\ pc = "idle"
    /\ handler' = "startup"
    /\ ev' = [NoEvent EXCEPT !.hasDir = hasDir]
    /\ startRec' = readState(fs, clock)
    /\ startDisk' = [archives |-> archives, injection |-> injection]
    /\ trace' = <<>>
    /\ LET state == readState(fs, clock)
       IN  CASE ~hasDir ->
                  Return /\ UNCHANGED <<fs, fault, archives>>
             [] state.state = "IDLE" ->
                  Return /\ UNCHANGED <<fs, fault, archives>>
             [] state.state = "PENDING" ->
                  writeState(state, "IDLE", <<>>, "return") /\ UNCHANGED archives
             [] state.state = "ARCHIVING" ->
                  IF archiveRecoverable(state)
                  THEN writeState(state, "ARCHIVED", <<>>, "return")
                       /\ UNCHANGED archives
                  ELSE /\ archives' = IF state.archivePath # NULL
                                      THEN [archives EXCEPT ![state.archivePath] = Absent]
                                      ELSE archives
                       /\ writeState(state, "PENDING", [archivePath |-> NULL], "toIdle")
             [] state.state = "ARCHIVED" ->
                  /\ pc' = "inject" /\ cur' = state /\ ended' = "running"
                  /\ UNCHANGED <<fs, cont, via, fault, archives>>
             [] state.state = "INJECTED" ->
                  /\ pc' = "finish" /\ cur' = state /\ ended' = "running"
                  /\ UNCHANGED <<fs, cont, via, fault, archives>>
             [] state.state = "COOLDOWN" ->
                  IF CooldownExpired(state, clock)
                  THEN writeState(state, "IDLE", [cooldownUntil |-> NONE], "return")
                       /\ UNCHANGED archives
                  ELSE Return /\ UNCHANGED <<fs, fault, archives>>
    /\ UNCHANGED <<transcripts, injection, env>>

\* lines 118-119: re-read the state and fall back to IDLE
ToIdle ==
    /\ pc = "toIdle"
    /\ writeState(readState(fs, clock), "IDLE", <<>>, "return")
    /\ UNCHANGED <<disk, env, call, trace>>

(***************************************************************************)
(* Environment: process crashes, the passing of time, the host writing     *)
(* transcripts.                                                            *)
(***************************************************************************)
\* proper prefixes of a file's lines: what an interrupted copy leaves
Prefixes(file) == {FileOf(SubSeq(file.lines, 1, n)) : n \in 0..(Len(file.lines) - 1)}

\* The process dies inside a handler, between two file operations.
Crash ==
    /\ pc # "idle"
    /\ pc' = "idle" /\ cont' = "none" /\ via' = "none" /\ cur' = DEFAULT_STATE
    /\ ended' = "crashed"
    /\ UNCHANGED <<fs, disk, env, call, trace, fault>>

\* The process dies inside writeFileSync(tmpPath, ...): the .tmp is torn.
CrashInWrite ==
    /\ pc = "rename"
    /\ pc' = "idle" /\ cont' = "none" /\ via' = "none" /\ cur' = DEFAULT_STATE
    /\ ended' = "crashed"
    /\ fs' = [fs EXCEPT ![tmpPath] = Torn]
    /\ UNCHANGED <<disk, env, call, trace, fault>>

\* The process dies inside copyFileSync: the archive is a partial copy.
CrashInCopy ==
    /\ pc = "copy"
    /\ transcripts[ev.sessionFile].exists
    /\ pc' = "idle" /\ cont' = "none" /\ via' = "none" /\ cur' = DEFAULT_STATE
    /\ ended' = "crashed"
    /\ \E partial \in Prefixes(transcripts[ev.sessionFile]) :
          archives' = [archives EXCEPT ![cur.archivePath] = partial]
    /\ UNCHANGED <<fs, transcripts, injection, env, call, trace, fault>>

\* between calls the record of the last call is forgotten
Forget ==
    /\ handler' = "none" /\ ev' = NoEvent /\ startRec' = DEFAULT_STATE
    /\ startDisk' = NoDisk
    /\ trace' = <<>> /\ ended' = "none"

Tick ==
    /\ pc = "idle"
    /\ clock < MaxTime
    /\ clock' = clock + 1
    /\ Forget
    /\ UNCHANGED <<fs, disk, config, req, probe, pc, cont, via, cur, fault>>

HostWrites(s, content) ==
    /\ pc = "idle"
    /\ transcripts[s] # content
    /\ transcripts' = [transcripts EXCEPT ![s] = content]
    /\ Forget
    /\ UNCHANGED <<fs, archives, injection, env, pc, cont, via, cur, fault>>

Next ==
    \/ \E s \in Sessions, enabled \in BOOLEAN, hasDir \in BOOLEAN :
          AfterCompaction(s, enabled, hasDir)
    \/ Guards
    \/ Archiving
    \/ CopyAndValidate
    \/ Rollback
    \/ \E rnd \in Randoms, est \in Estimates : Inject(rnd, est)
    \/ finishRotation
    \/ \E hasDir \in BOOLEAN : GatewayStartup(hasDir)
    \/ ToIdle
    \/ Rename
    \/ Crash
    \/ CrashInWrite
    \/ CrashInCopy
    \/ Tick
    \/ \E s \in Sessions, content \in Transcripts : HostWrites(s, content)

Spec == Init /\ [][Next]_vars


(***************************************************************************)
(* Direct calls of the state store, as the unit tests make them: any       *)
(* current record, any requested state name.                               *)
(***************************************************************************)
StoreUpdates == { <<>>, [oldSessionId |-> "s1"] }

\* writeState(agentDir, current, next, updates) called on its own
StoreWrite(current, next, updates) ==
    /\ pc = "idle"
    /\ handler' = "store"
    /\ ev' = NoEvent
    /\ startRec' = current
    /\ startDisk' = [archives |-> archives, injection |-> injection]
    /\ trace' = <<>>
    /\ req' = next
    /\ writeState(current, next, updates, "return")
    /\ UNCHANGED <<disk, clock, config, probe>>

\* patchState(agentDir, current, updates) called on its own
StorePatch(current) ==
    /\ pc = "idle"
    /\ current.cumulativeCompactionCount < MaxCount
    /\ handler' = "store"
    /\ ev' = NoEvent
    /\ startRec' = current
    /\ startDisk' = [archives |-> archives, injection |-> injection]
    /\ trace' = <<>>
    /\ req' = "none"
    /\ patchState(current, CounterPatch(cumulativeCount(current)), "return")
    /\ UNCHANGED <<disk, clock, config, probe>>

NextStore ==
    \/ \E name \in RotationStateName, next \in RotationStateName, updates \in StoreUpdates :
          StoreWrite([readState(fs, clock) EXCEPT !.state = name], next, updates)
    \/ StorePatch(readState(fs, clock))
    \/ Rename
    \/ Crash
    \/ CrashInWrite

SpecStore == Init /\ [][NextStore]_vars

(***************************************************************************)
(* Direct calls of the guards, as the unit tests make them: a record with  *)
(* any cooldownUntil and any history of up to two entries, any count       *)
(* (NONE when the argument is left out), any time.                         *)
(***************************************************************************)
GuardEntries ==
    { [rotatedAt |-> t, oldSessionId |-> "s1", newSessionId |-> <<t, 1>>,
       triggerCompactionCount |-> n, injectedTokensEstimate |-> 0] :
         t \in 0..MaxTime, n \in 0..MaxCount }

GuardHistories ==
    {<<>>} \cup {<<e>> : e \in GuardEntries}
           \cup {<<e1, e2>> : e1 \in GuardEntries, e2 \in GuardEntries}

GuardStates ==
    { [DEFAULT_STATE EXCEPT !.cooldownUntil = cu, !.rotationHistory = h] :
         cu \in {NONE} \cup 0..(MaxTime + 1), h \in GuardHistories }

GuardArgs ==
    { [fn |-> "args", state |-> st, cfg |-> cfg, count |-> n, now |-> t, result |-> FALSE] :
         st \in GuardStates, cfg \in Configs,
         n \in {NONE} \cup 0..(MaxCount + 1), t \in 0..MaxTime }

InitGuards ==
    /\ fs = [state |-> NoFile, tmp |-> NoFile]
    /\ transcripts \in [Sessions -> {FileOf(<<"user", "asst">>)}]
    /\ archives = [s \in Sessions |-> Absent]
    /\ injection = NONE
    /\ clock = 0
    /\ config = NoProbe.cfg
    /\ pc = "idle" /\ cont = "none" /\ via = "none"
    /\ handler = "none" /\ ev = NoEvent
    /\ cur = DEFAULT_STATE /\ startRec = DEFAULT_STATE /\ startDisk = NoDisk
    /\ trace = <<>> /\ ended = "none" /\ req = "none"
    /\ probe \in GuardArgs
    /\ fault = FALSE

\* isInCooldown(state, config, currentCompactionCount) called on its own
CallIsInCooldown ==
    /\ probe.fn = "args"
    /\ probe' = [probe EXCEPT !.fn = "isInCooldown",
                              !.result = isInCooldown(probe.state, probe.cfg,
                                                      probe.count, probe.now)]
    /\ UNCHANGED <<fs, disk, clock, config, req, pc, cont, via, cur, call,
                   trace, ended, fault>>

NextGuards == CallIsInCooldown

SpecGuards == InitGuards /\ [][NextGuards]_vars

(***************************************************************************)
(* Direct calls of the payload and file functions, as the unit tests make  *)
(* them: the arguments are drawn at the start and one call applies the     *)
(* function; formatInjectionMessage is applied to the payload that         *)
(* buildInjectionPayload returned, as rotatePhase2 does.                   *)
(***************************************************************************)
\* Longest transcript and archive, in lines, of the direct calls
MaxLines == 4

HistoryAt(times) ==
    [i \in 1..Len(times) |->
        [rotatedAt |-> times[i], oldSessionId |-> "s1", newSessionId |-> <<times[i], 1>>,
         triggerCompactionCount |-> 1, injectedTokensEstimate |-> 0]]

Times == 0..MaxTime

PayloadConfigs ==
    { [contextWindow |-> cw, injectionBudgetPercent |-> 15, recentMessagePairs |-> n,
       circuitBreaker |-> [maxRotations |-> 3, windowMinutes |-> 2]] :
         cw \in {200000, 20000}, n \in {5, 1} }

\* n exchanges of a user and an assistant message of the given sizes
Exchanges(n, u, a) ==
    [i \in 1..(2 * n) |-> IF i % 2 = 1 THEN Msg("user", u) ELSE Msg("assistant", a)]

\* MEMORY.md: missing or empty, short, ten long lines, one longer line
MemoryTexts == { <<0>>, <<3>>, [i \in 1..10 |-> 4000], <<100000>> }

DailyLogs == {0, 5, 50000}

PayloadTranscripts ==
    { Absent, FileOf(Exchanges(1, 1, 1)), FileOf(Exchanges(10, 2000, 2000)),
      FileOf(Exchanges(20, 5000, 5000)) }

PayloadStates ==
    { [DEFAULT_STATE EXCEPT !.state = "ARCHIVED", !.oldSessionId = "s1",
                            !.oldSessionFile = "s1", !.archivePath = "s1",
                            !.triggerCompactionCount = 1, !.rotationHistory = h] :
         h \in {HistoryAt(<<>>)} \cup {HistoryAt(<<t>>) : t \in Times}
                 \cup {HistoryAt(<<t1, t2>>) : t1 \in Times, t2 \in Times} }

PayloadArgs ==
    { [fn |-> "args", of |-> "buildInjectionPayload",
       args |-> [cfg |-> cfg, state |-> st, now |-> t,
                 ws |-> [memory |-> m, today |-> td, yesterday |-> yd,
                         sessions |-> [s \in Sessions |-> tr]]],
       result |-> FALSE] :
         cfg \in PayloadConfigs, st \in PayloadStates, t \in Times,
         m \in MemoryTexts, td \in DailyLogs, yd \in DailyLogs,
         tr \in PayloadTranscripts }

BackoffArgs ==
    { [fn |-> "args", of |-> "getBackoffMultiplier",
       args |-> [cfg |-> [cfg EXCEPT !.circuitBreaker.windowMinutes = w],
                 state |-> [DEFAULT_STATE EXCEPT !.rotationHistory = HistoryAt(h)],
                 now |-> t],
       result |-> FALSE] :
         cfg \in {c \in PayloadConfigs : c.contextWindow = 200000 /\ c.recentMessagePairs = 5},
         w \in 1..MaxTime, t \in Times,
         h \in UNION {[1..n -> Times] : n \in 0..3} }

\* Lines of an archive or an original: a record, an empty line, text that
\* is not JSON
ArchiveFiles ==
    {Absent} \cup {FileOf(ls) : ls \in UNION {[1..n -> {"user", "blank", "bad"}] : n \in 0..MaxLines}}

ValidateArgs ==
    { [fn |-> "args", of |-> "validateArchive",
       args |-> [archive |-> a, original |-> o], result |-> FALSE] :
         a \in ArchiveFiles, o \in ArchiveFiles }

\* Transcript lines: the i-th line has a content of i characters, but for
\* an assistant message with the empty string as content
MessageAt(kind, i) ==
    IF kind = "assistant0" THEN Msg("assistant", 0) ELSE Msg(kind, i)

MessageFiles ==
    {Absent} \cup
    { FileOf([i \in 1..Len(ks) |-> MessageAt(ks[i], i)]) :
        ks \in UNION {[1..n -> {"user", "assistant", "assistant0", "tool", "bad"}] :
                         n \in 0..MaxLines} }

ExtractArgs ==
    { [fn |-> "args", of |-> "extractRecentMessages",
       args |-> [files |-> [s \in Sessions |-> f], sessionFile |-> path, count |-> n],
       result |-> FALSE] :
         f \in MessageFiles, path \in {"", "s1"}, n \in {0, 1, 2, 5} }

\* memory texts of n lines, line i holding 100 + i characters
MaxMemoryLines == 100

NumberedLines(n) == [i \in 1..n |-> 100 + i]

TruncateArgs ==
    { [fn |-> "args", of |-> "truncateMemory",
       args |-> [text |-> NumberedLines(n)], result |-> FALSE] :
         n \in 1..MaxMemoryLines }

InitFunctions ==
    /\ fs = [state |-> NoFile, tmp |-> NoFile]
    /\ transcripts \in [Sessions -> {FileOf(<<"user", "asst">>)}]
    /\ archives = [s \in Sessions |-> Absent]
    /\ injection = NONE
    /\ clock = 0
    /\ config = NoProbe.cfg
    /\ pc = "idle" /\ cont = "none" /\ via = "none"
    /\ handler = "none" /\ ev = NoEvent
    /\ cur = DEFAULT_STATE /\ startRec = DEFAULT_STATE /\ startDisk = NoDisk
    /\ trace = <<>> /\ ended = "none" /\ req = "none"
    /\ \/ probe \in PayloadArgs
       \/ probe \in BackoffArgs
       \/ probe \in ValidateArgs
       \/ probe \in ExtractArgs
       \/ probe \in TruncateArgs
    /\ fault = FALSE

\* a call returns: the rest of the state is left alone
Frame ==
    UNCHANGED <<fs, disk, clock, config, req, pc, cont, via, cur, call,
                trace, ended, fault>>

CallBuildInjectionPayload ==
    /\ probe.fn = "args" /\ probe.of = "buildInjectionPayload"
    /\ probe' = [probe EXCEPT
                    !.fn = "buildInjectionPayload",
                    !.result = buildInjectionPayload(probe.args.cfg, probe.args.ws,
                                                     probe.args.state, probe.args.now)]
    /\ Frame

CallGetBackoffMultiplier ==
    /\ probe.fn = "args" /\ probe.of = "getBackoffMultiplier"
    /\ probe' = [probe EXCEPT
                    !.fn = "getBackoffMultiplier",
                    !.result = getBackoffMultiplier(probe.args.state, probe.args.cfg,
                                                    probe.args.now)]
    /\ Frame

CallValidateArchive ==
    /\ probe.fn = "args" /\ probe.of = "validateArchive"
    /\ probe' = [probe EXCEPT
                    !.fn = "validateArchive",
                    !.result = validateArchive(probe.args.archive, probe.args.original)]
    /\ Frame

CallExtractRecentMessages ==
    /\ probe.fn = "args" /\ probe.of = "extractRecentMessages"
    /\ probe' = [probe EXCEPT
                    !.fn = "extractRecentMessages",
                    !.result = extractRecentMessages(probe.args.files,
                                                     probe.args.sessionFile,
                                                     probe.args.count)]
    /\ Frame

CallTruncateMemory ==
    /\ probe.fn = "args" /\ probe.of = "truncateMemory"
    /\ probe' = [probe EXCEPT !.fn = "truncateMemory",
                              !.result = truncateMemory(probe.args.text)]
    /\ Frame

\* formatInjectionMessage(payload) on the payload just built
CallFormatInjectionMessage ==
    /\ probe.fn = "buildInjectionPayload"
    /\ probe' = [probe EXCEPT !.fn = "formatInjectionMessage",
                              !.args = [payload |-> probe.result],
                              !.result = formatInjectionMessage(probe.result)]
    /\ Frame

NextFunctions ==
    \/ CallBuildInjectionPayload
    \/ CallGetBackoffMultiplier
    \/ CallValidateArchive
    \/ CallExtractRecentMessages
    \/ CallTruncateMemory
    \/ CallFormatInjectionMessage

SpecFunctions == InitFunctions /\ [][NextFunctions]_vars

(***************************************************************************)
(* Two invocations of onAfterCompaction for one agent directory, in two    *)
(* processes, interleaved between their reads and writes of the state      *)
(* file.  `probe` holds, for each invocation, its position, its local      *)
(* `state` and its cumulativeCount; a write (writeFileSync and renameSync) *)
(* is taken as one step.                                                   *)
(***************************************************************************)
Racers == {1, 2}

RaceStart ==
    [fn |-> "race", start |-> readState(fs, clock).cumulativeCompactionCount,
     procs |-> [p \in Racers |-> [pc |-> "read", state |-> DEFAULT_STATE, count |-> 0]]]

InitRace ==
    /\ fs \in {[state |-> f, tmp |-> NoFile] :
                  f \in {NoFile} \cup
                        {Stored([DEFAULT_STATE EXCEPT !.cumulativeCompactionCount = n]) :
                            n \in 0..MaxCount}}
    /\ transcripts \in [Sessions -> {FileOf(<<"user", "asst">>)}]
    /\ archives = [s \in Sessions |-> Absent]
    /\ injection = NONE
    /\ clock = 0
    /\ config \in Configs
    /\ pc = "idle" /\ cont = "none" /\ via = "none"
    /\ handler = "none" /\ ev = NoEvent
    /\ cur = DEFAULT_STATE /\ startRec = DEFAULT_STATE /\ startDisk = NoDisk
    /\ trace = <<>> /\ ended = "none" /\ req = "none"
    /\ probe = RaceStart
    /\ fault = FALSE

\* the invocation moves to pc k with local state st and count n
RacerAt(p, k, st, n) ==
    probe' = [probe EXCEPT !.procs[p] = [pc |-> k, state |-> st, count |-> n]]

RaceFrame ==
    UNCHANGED <<disk, clock, config, req, pc, cont, via, cur, call, trace, ended, fault>>

\* line 60: let state = readState(agentDir)
RaceRead(p) ==
    /\ probe.procs[p].pc = "read"
    /\ RacerAt(p, "patch", readState(fs, clock), 0)
    /\ UNCHANGED fs
    /\ RaceFrame

\* lines 63-65: the counter is incremented from the record read and written
RacePatch(p) ==
    /\ probe.procs[p].pc = "patch"
    /\ LET state    == probe.procs[p].state
           newState == patchStateRecord(state, CounterPatch(cumulativeCount(state)), clock)
       IN  /\ fs' = [fs EXCEPT ![statePath] = Stored(newState)]
           /\ RacerAt(p, "guards", newState, newState.cumulativeCompactionCount)
    /\ RaceFrame

\* lines 67-90: cooldown expiry and the guards, on the local record
RaceGuards(p) ==
    /\ probe.procs[p].pc = "guards"
    /\ LET state == probe.procs[p].state
           count == probe.procs[p].count
       IN  IF state.state = "COOLDOWN"
           THEN IF CooldownExpired(state, clock)
                THEN LET newState == writeStateRecord(state, "IDLE",
                                                      [cooldownUntil |-> NONE], clock)
                     IN  /\ fs' = [fs EXCEPT ![statePath] = Stored(newState)]
                         /\ RacerAt(p, "done", newState, count)
                ELSE RacerAt(p, "done", state, count) /\ UNCHANGED fs
           ELSE /\ UNCHANGED fs
                /\ IF \/ NotIdle(state)
                      \/ belowThreshold(count, config)
                      \/ ~checkCircuitBreaker(state, config, clock)
                      \/ isInCooldown(state, config, count, clock)
                      \/ hasActiveTasks(transcripts["s1"])
                   THEN RacerAt(p, "done", state, count)
                   ELSE RacerAt(p, "rotate", state, count)
    /\ RaceFrame

\* line 160: rotate reads the record again
RaceRotateRead(p) ==
    /\ probe.procs[p].pc = "rotate"
    /\ RacerAt(p, "pending", readState(fs, clock), probe.procs[p].count)
    /\ UNCHANGED fs
    /\ RaceFrame

\* lines 163-168: writeState(agentDir, state, 'PENDING', ...), checked
\* against the record just read; the rotation goes on from there
RacePending(p) ==
    /\ probe.procs[p].pc = "pending"
    /\ LET state == probe.procs[p].state
           count == probe.procs[p].count
       IN  IF "PENDING" \notin VALID_TRANSITIONS[state.state]
           THEN RacerAt(p, "threw", state, count) /\ UNCHANGED fs
           ELSE LET newState ==
                        writeStateRecord(state, "PENDING",
                                         [startedAt              |-> clock,
                                          oldSessionId           |-> "s1",
                                          oldSessionFile         |-> "s1",
                                          triggerCompactionCount |-> count], clock)
                IN  /\ fs' = [fs EXCEPT ![statePath] = Stored(newState)]
                    /\ RacerAt(p, "rotating", newState, count)
    /\ RaceFrame

NextRace ==
    \E p \in Racers :
        \/ RaceRead(p)
        \/ RacePatch(p)
        \/ RaceGuards(p)
        \/ RaceRotateRead(p)
        \/ RacePending(p)

SpecRace == InitRace /\ [][NextRace]_vars

(***************************************************************************)
(* Recovery: the gateway process runs handlers to completion unless it     *)
(* dies; after a death it is restarted and onGatewayStartup runs before    *)
(* any event is delivered.  Events carry an agent directory, the plugin is *)
(* enabled and the transcript holds no open tool call.  Fairness: a        *)
(* running handler goes on to its next file operation, events keep         *)
(* arriving and time advances; nothing forces a death or a restart.        *)
(***************************************************************************)
\* the process is down: the last handler was cut short and no startup has
\* run since
Down == ended = "crashed"

\* after_compaction is delivered to the running process
Arrives ==
    /\ ~Down
    /\ \E s \in Sessions : AfterCompaction(s, TRUE, TRUE)

\* the handler's next file operation
Proceeds ==
    \/ Guards
    \/ Archiving
    \/ CopyAndValidate
    \/ Rollback
    \/ \E rnd \in Randoms, est \in Estimates : Inject(rnd, est)
    \/ finishRotation
    \/ ToIdle
    \/ Rename

\* the process dies
Dies == Crash \/ CrashInWrite \/ CrashInCopy

\* the process is restarted: gateway:startup is delivered
Restarts == Down /\ GatewayStartup(TRUE)

\* time passes while the process runs
Passes == ~Down /\ Tick

\* time passes while the process is down
Downtime ==
    /\ Down
    /\ clock < MaxTime
    /\ clock' = clock + 1
    /\ UNCHANGED <<fs, disk, config, req, probe, pc, cont, via, cur, call,
                   trace, ended, fault>>

\* transcripts without an open tool call: an exchange, or no line at all
\* (which the archive validation rejects)
QuietTranscripts == {FileOf(<<"user", "asst">>), FileOf(<<>>)}

\* no state file yet, as in Init
InitRecovery ==
    /\ fs = [state |-> NoFile, tmp |-> NoFile]
    /\ transcripts \in [Sessions -> QuietTranscripts]
    /\ archives = [s \in Sessions |-> Absent]
    /\ injection = NONE
    /\ clock = 0
    /\ config \in Configs
    /\ pc = "idle" /\ cont = "none" /\ via = "none"
    /\ handler = "none" /\ ev = NoEvent
    /\ cur = DEFAULT_STATE /\ startRec = DEFAULT_STATE /\ startDisk = NoDisk
    /\ trace = <<>> /\ ended = "none" /\ req = "none"
    /\ probe = NoProbe
    /\ fault = FALSE

NextRecovery ==
    \/ Arrives
    \/ Proceeds
    \/ Dies
    \/ Restarts
    \/ Passes
    \/ Downtime

SpecRecovery ==
    /\ InitRecovery
    /\ [][NextRecovery]_vars
    /\ WF_vars(Arrives)
    /\ WF_vars(Proceeds)
    /\ WF_vars(Passes)

(***************************************************************************)
(* Properties.                                                             *)
(***************************************************************************)
\* the edges of the transition graph
LegalEdges ==
    { <<"IDLE", "PENDING">>, <<"PENDING", "ARCHIVING">>, <<"PENDING", "IDLE">>,
      <<"ARCHIVING", "ARCHIVED">>, <<"ARCHIVING", "PENDING">>,
      <<"ARCHIVED", "INJECTED">>, <<"INJECTED", "COOLDOWN">>, <<"COOLDOWN", "IDLE">> }

\* what readState returns, but for the stamp of a default record
Persisted == readState(fs, 0)
PersistedNext == readState(fs', 0)

EventEnded == handler = "event" /\ ended \in {"returned", "threw"}

Range(seq) == {seq[i] : i \in 1..Len(seq)}

\* C1: every change of the persisted `state` field, over events, startups
\* and crashes, follows one of the eight edges of the transition graph.
C1_StateFollowsEdges ==
    [][Persisted.state # PersistedNext.state
          => <<Persisted.state, PersistedNext.state>> \in LegalEdges]_vars

\* a startup that found INJECTED after a crash and finished the rotation
C1_Witness ==
    /\ handler = "startup" /\ ended = "returned"
    /\ startRec.state = "INJECTED"
    /\ Persisted.state = "COOLDOWN"

\* C2: an event that finds the persisted state other than IDLE starts no
\* rotation and leaves oldSessionId, oldSessionFile, archivePath and
\* triggerCompactionCount as they are; IDLE -> PENDING is only done by an
\* event that found IDLE.
C2_OneRotationInFlight ==
    [][/\ (handler' = "event" /\ startRec'.state # "IDLE")
            => /\ PersistedNext.oldSessionId = Persisted.oldSessionId
               /\ PersistedNext.oldSessionFile = Persisted.oldSessionFile
               /\ PersistedNext.archivePath = Persisted.archivePath
               /\ PersistedNext.triggerCompactionCount = Persisted.triggerCompactionCount
               /\ PersistedNext.startedAt = Persisted.startedAt
               /\ (PersistedNext.state # Persisted.state
                     => <<Persisted.state, PersistedNext.state>> = <<"COOLDOWN", "IDLE">>)
       /\ (Persisted.state = "IDLE" /\ PersistedNext.state = "PENDING")
            => (handler = "event" /\ startRec.state = "IDLE")]_vars

\* an event arrived while a crashed rotation was still in ARCHIVING
C2_Witness ==
    /\ EventEnded /\ ev.enabled /\ ev.hasDir
    /\ startRec.state = "ARCHIVING"
    /\ Persisted.state = "ARCHIVING"
    /\ Persisted.cumulativeCompactionCount = startRec.cumulativeCompactionCount + 1


\* the guards of section 4.2, stated on the record an event found
ThresholdReached(rec) ==
    rec.cumulativeCompactionCount + 1 >= config.compactionCountThreshold

BreakerClear(rec) ==
    Cardinality({i \in DOMAIN rec.rotationHistory :
                    clock - rec.rotationHistory[i].rotatedAt
                        < config.circuitBreaker.windowMinutes})
        < config.circuitBreaker.maxRotations

CooldownClear(rec) ==
    /\ rec.cooldownUntil = NONE \/ rec.cooldownUntil <= clock
    /\ \/ rec.rotationHistory = <<>>
       \/ LET last == rec.rotationHistory[Len(rec.rotationHistory)]
          IN  /\ clock - last.rotatedAt >= config.cooldown.minMinutes
              /\ rec.cumulativeCompactionCount + 1 - last.triggerCompactionCount
                    >= config.cooldown.minCompactions

\* the trailing window of 50 lines of the transcript, leading and trailing
\* empty lines set aside
TailOf(file) ==
    LET lines == TrimEnd(TrimStart(file.lines))
    IN  IF Len(lines) <= 50 THEN lines
        ELSE SubSeq(lines, Len(lines) - 49, Len(lines))

\* a tool_use in the trailing window whose id no tool_result there refers to
Outstanding(file) ==
    /\ file.exists
    /\ \E i \in DOMAIN TailOf(file) : \E id \in ToolUseIds(TailOf(file)[i]) :
          \A j \in DOMAIN TailOf(file) : id \notin ToolResultIds(TailOf(file)[j])

NoActiveWork(file) == ~Outstanding(file)

\* an event that ended and had found IDLE with every guard clear
QualifyingEventEnded ==
    /\ EventEnded /\ ev.enabled /\ ev.hasDir
    /\ startRec.state = "IDLE"
    /\ ThresholdReached(startRec)
    /\ BreakerClear(startRec)
    /\ CooldownClear(startRec)
    /\ NoActiveWork(transcripts[ev.sessionFile])

\* the call committed the five transitions in order, left an archive equal
\* to the transcript, appended one history entry and set cooldownUntil
FullRotationDone ==
    /\ ended = "returned"
    /\ trace = <<"PENDING", "ARCHIVING", "ARCHIVED", "INJECTED", "COOLDOWN">>
    /\ Persisted.state = "COOLDOWN"
    /\ Persisted.archivePath # NULL
    /\ archives[Persisted.archivePath].exists
    /\ archives[Persisted.archivePath] = transcripts[ev.sessionFile]
    /\ Len(Persisted.rotationHistory) = Len(startRec.rotationHistory) + 1
    /\ Persisted.cooldownUntil = clock + config.cooldown.minMinutes

\* the transcript is there, has a record, and its first and last records parse
TranscriptArchivable(file) ==
    /\ file.exists
    /\ \E i \in DOMAIN file.lines : file.lines[i] # "blank"
    /\ LET records == SelectNonEmpty(file.lines)
       IN  Parses(records[1]) /\ Parses(records[Len(records)])

\* C3 as claimed, on the calls that return: every qualifying event in IDLE
\* runs the whole rotation in that one call.
C3_QualifyingEventRotates_Claimed ==
    (QualifyingEventEnded /\ ended = "returned") => FullRotationDone

\* C3: a qualifying event in IDLE whose transcript exists, is non-empty and
\* has parsable first and last records commits IDLE -> PENDING -> ARCHIVING
\* -> ARCHIVED -> INJECTED -> COOLDOWN in that one call, leaves an archive
\* equal to the transcript, appends one history entry and sets cooldownUntil
\* to now + cooldown.minMinutes.
C3_QualifyingEventRotates ==
    (QualifyingEventEnded /\ TranscriptArchivable(transcripts[ev.sessionFile]))
        => FullRotationDone

\* a second rotation completed in one call
C3_Witness ==
    /\ QualifyingEventEnded
    /\ TranscriptArchivable(transcripts[ev.sessionFile])
    /\ FullRotationDone
    /\ Len(Persisted.rotationHistory) = 2

\* C4: the 'Invalid state transition' fault is never raised, whatever the
\* interleaving of events, crashes and startups.
C4_NoInvalidTransition == ~fault

\* a startup that found ARCHIVING with an invalid archive and rolled back
C4_Witness ==
    /\ handler = "startup" /\ ended = "returned"
    /\ startRec.state = "ARCHIVING"
    /\ trace = <<"PENDING", "IDLE">>
    /\ ~fault

\* C5: an event call that has committed PENDING ends, unless the process
\* crashes, with COOLDOWN or IDLE persisted, also when the copy fails.
C5_RotationRunsToCompletion ==
    (EventEnded /\ "PENDING" \in Range(trace))
        => Persisted.state \in {"COOLDOWN", "IDLE"}

\* C6: once a record is committed, the state file always holds a complete
\* record, which is the one before the step or the one being written; no
\* crash and no leftover .tmp changes what readState returns.
C6_AtomicCommit ==
    [][fs[statePath].kind = "ok"
          => /\ fs'[statePath].kind = "ok"
             /\ \/ PersistedNext = Persisted
                \/ PersistedNext = cur
                \/ PersistedNext = cur']_vars

\* a crash inside the write of the .tmp file, a committed record existing
C6_Witness ==
    /\ ended = "crashed"
    /\ fs[tmpPath] = Torn
    /\ fs[statePath].kind = "ok"
    /\ Persisted.state = "INJECTED"

\* C7: writeState with a next state that is no legal successor of
\* current.state raises the fault and leaves the state file and the .tmp
\* file exactly as they were.
C7_IllegalWriteWritesNothing ==
    [][(pc = "idle" /\ handler' = "store" /\ req' # "none"
            /\ <<startRec'.state, req'>> \notin LegalEdges)
          => (fs' = fs /\ fault' /\ ended' = "threw")]_vars

\* an illegal request was refused while a record and a leftover .tmp existed
C7_Witness ==
    /\ handler = "store" /\ ended = "threw" /\ fault
    /\ <<startRec.state, req>> \notin LegalEdges
    /\ fs[statePath].kind = "ok"
    /\ fs[tmpPath].kind # "none"

\* C8: every change of rotation-state.json is committed by writeState along
\* a legal edge, or by patchState with the `state` field as it was.
C8_NoWriteBypassesCheck ==
    [][fs'[statePath] # fs[statePath]
          => \/ /\ via = "writeState"
                /\ <<Persisted.state, PersistedNext.state>> \in LegalEdges
             \/ /\ via = "patchState"
                /\ PersistedNext.state = Persisted.state]_vars

\* the counter patch was committed while the state was ARCHIVED
C8_Witness ==
    /\ EventEnded /\ ev.enabled /\ ev.hasDir
    /\ startRec.state = "ARCHIVED"
    /\ Persisted = [startRec EXCEPT !.cumulativeCompactionCount = @ + 1,
                                    !.updatedAt = clock]

C10_CounterNeverDecreases ==
    [][PersistedNext.cumulativeCompactionCount
          >= Persisted.cumulativeCompactionCount]_vars

\* a startup ended a cooldown after a rotation, the counter kept
C10_Witness ==
    /\ handler = "startup" /\ ended = "returned"
    /\ startRec.state = "COOLDOWN"
    /\ Persisted.state = "IDLE"
    /\ Persisted.rotationHistory # <<>>
    /\ Persisted.cumulativeCompactionCount >= config.compactionCountThreshold

IsPrefix(a, b) == Len(a) <= Len(b) /\ SubSeq(b, 1, Len(a)) = a

\* C11: rotationHistory is append-only: over events, startups and crashes
\* the persisted history before a step is a prefix of the one after it, and
\* it grows, by one entry, only on the INJECTED -> COOLDOWN commit.
C11_HistoryAppendOnly ==
    [][/\ IsPrefix(Persisted.rotationHistory, PersistedNext.rotationHistory)
       /\ PersistedNext.rotationHistory # Persisted.rotationHistory
            => /\ Len(PersistedNext.rotationHistory) = Len(Persisted.rotationHistory) + 1
               /\ Persisted.state = "INJECTED"
               /\ PersistedNext.state = "COOLDOWN"]_vars

\* a startup after a crash in INJECTED appended the second entry
C11_Witness ==
    /\ handler = "startup" /\ ended = "returned"
    /\ startRec.state = "INJECTED"
    /\ Len(startRec.rotationHistory) = 1
    /\ Len(Persisted.rotationHistory) = 2
    /\ Persisted.rotationHistory[1] = startRec.rotationHistory[1]

\* an enabled event that found IDLE
EventInIdle ==
    /\ handler = "event" /\ ev.enabled /\ ev.hasDir
    /\ startRec.state = "IDLE"

AllGuardsPass ==
    /\ ThresholdReached(startRec)
    /\ BreakerClear(startRec)
    /\ CooldownClear(startRec)
    /\ NoActiveWork(transcripts[ev.sessionFile])

\* the records agree on every field outside `fields`
SameBut(a, b, fields) == \A f \in (DOMAIN a) \ fields : a[f] = b[f]

\* the persisted record is the one the call found, the counter bumped
OnlyCounted ==
    /\ SameBut(Persisted, startRec, {"cumulativeCompactionCount", "updatedAt"})
    /\ Persisted.cumulativeCompactionCount = startRec.cumulativeCompactionCount + 1
    /\ Persisted.updatedAt = clock

\* C12: when a guard fails in state IDLE (threshold, breaker, cooldown or
\* active work) the call changes only cumulativeCompactionCount and
\* updatedAt: no transition is committed, every other field stays, and no
\* archive or injection file is created or changed.
C12_GuardFailureOnlyCounts ==
    (EventInIdle /\ ~AllGuardsPass)
        => /\ trace = <<>>
           /\ archives = startDisk.archives
           /\ injection = startDisk.injection
           /\ SameBut(Persisted, startRec, {"cumulativeCompactionCount", "updatedAt"})
           /\ ended = "returned" => OnlyCounted

\* an event below the threshold was counted and nothing else
C12_Witness ==
    /\ EventInIdle /\ ended = "returned"
    /\ ~ThresholdReached(startRec)
    /\ OnlyCounted
    /\ Persisted.state = "IDLE"

\* an event in IDLE was held back by the cooldown alone: too few
\* compactions since the last rotation
C12_WitnessCooldown ==
    /\ EventInIdle /\ ended = "returned"
    /\ ThresholdReached(startRec) /\ BreakerClear(startRec)
    /\ NoActiveWork(transcripts[ev.sessionFile])
    /\ ~CooldownClear(startRec)
    /\ OnlyCounted

\* C13: a rotation starts only if fewer than circuitBreaker.maxRotations
\* history entries have rotatedAt inside the trailing windowMinutes; with
\* that many or more, a qualifying event commits no transition and the
\* counter patch still applies; entries older than the window do not count,
\* so an event that is clear of them does start.
C13_CircuitBreaker ==
    /\ (handler = "event" /\ startRec.state = "IDLE" /\ "PENDING" \in Range(trace))
          => BreakerClear(startRec)
    /\ (EventInIdle /\ ~BreakerClear(startRec))
          => /\ trace = <<>>
             /\ Persisted.state = "IDLE"
             /\ ended = "returned" => OnlyCounted
    /\ (EventInIdle /\ EventEnded /\ AllGuardsPass) => "PENDING" \in Range(trace)

\* an event that passed every other guard was stopped by the breaker
C13_Witness ==
    /\ EventInIdle /\ ended = "returned"
    /\ ThresholdReached(startRec) /\ CooldownClear(startRec)
    /\ NoActiveWork(transcripts[ev.sessionFile])
    /\ ~BreakerClear(startRec)
    /\ OnlyCounted

\* a rotation started with maxRotations entries in the history, all of them
\* older than the window
C13_WitnessWindowSlid ==
    /\ EventInIdle /\ EventEnded
    /\ Len(startRec.rotationHistory) >= config.circuitBreaker.maxRotations
    /\ "PENDING" \in Range(trace)

\* the three conditions of the cooldown guard, on the arguments of the call
CooldownUntilAhead == probe.state.cooldownUntil # NONE /\ probe.state.cooldownUntil > probe.now

LastRotation == probe.state.rotationHistory[Len(probe.state.rotationHistory)]

TooSoon ==
    /\ probe.state.rotationHistory # <<>>
    /\ probe.now - LastRotation.rotatedAt < probe.cfg.cooldown.minMinutes

TooFewCompactions ==
    /\ probe.state.rotationHistory # <<>>
    /\ probe.count - LastRotation.triggerCompactionCount < probe.cfg.cooldown.minCompactions

\* C14: given the current cumulative count, the cooldown guard blocks exactly
\* when (a) cooldownUntil is set and in the future, or (b) the history is
\* non-empty and less than cooldown.minMinutes has passed since the last
\* entry's rotatedAt, or (c) the history is non-empty and the count less the
\* last entry's triggerCompactionCount is below cooldown.minCompactions;
\* with an empty history and no cooldownUntil it never blocks.
C14_CooldownGuard ==
    probe.fn = "isInCooldown"
        => /\ probe.count # NONE
                => (probe.result <=> (CooldownUntilAhead \/ TooSoon \/ TooFewCompactions))
           /\ (probe.state.rotationHistory = <<>> /\ probe.state.cooldownUntil = NONE)
                => ~probe.result

\* the guard blocked on the compaction count alone, judged on the last of
\* two entries
C14_Witness ==
    /\ probe.fn = "isInCooldown" /\ probe.result /\ probe.count # NONE
    /\ ~CooldownUntilAhead /\ ~TooSoon /\ TooFewCompactions
    /\ Len(probe.state.rotationHistory) = 2
    /\ probe.count - probe.state.rotationHistory[1].triggerCompactionCount
          >= probe.cfg.cooldown.minCompactions

\* n lines alike
Repeat(l, n) == [i \in 1..n |-> l]

\* transcripts and whether their trailing window shows outstanding work: a
\* request with and without its result, a result for another id, a request
\* just inside and just outside the window, trailing empty lines, a line
\* that is not JSON, no file
ScanCases ==
    { <<FileOf(<<"use">>), TRUE>>,
      <<FileOf(<<"use", "res">>), FALSE>>,
      <<FileOf(<<"res", "use">>), FALSE>>,
      <<FileOf(<<"use", "res2">>), TRUE>>,
      <<FileOf(<<"use", "use2", "res">>), TRUE>>,
      <<FileOf(<<"bad", "use">>), TRUE>>,
      <<FileOf(<<"use">> \o Repeat("user", 49)), TRUE>>,
      <<FileOf(<<"use">> \o Repeat("user", 50)), FALSE>>,
      <<FileOf(<<"use">> \o Repeat("blank", 50)), TRUE>>,
      <<FileOf(<<>>), FALSE>>,
      <<Absent, FALSE>> }

\* C15: a transcript with a tool_use whose id no tool_result refers to makes
\* an otherwise qualifying event defer: no transition is committed, the
\* state stays IDLE and no archive is written; an event that finds every
\* request answered, the other guards clear, starts the rotation.  Only the
\* trailing 50 lines of the transcript are scanned (the scan is compared
\* with ScanCases once, before the first event).
C15_ActiveWorkDefers ==
    /\ (EventInIdle /\ Outstanding(transcripts[ev.sessionFile]))
          => /\ trace = <<>>
             /\ Persisted.state = "IDLE"
             /\ archives = startDisk.archives
    /\ (EventInIdle /\ EventEnded /\ ThresholdReached(startRec)
           /\ BreakerClear(startRec) /\ CooldownClear(startRec)
           /\ ~Outstanding(transcripts[ev.sessionFile]))
          => trace # <<>>
    /\ (handler = "none" /\ fs[statePath].kind = "none")
          => \A c \in ScanCases :
                hasActiveTasks(c[1]) = c[2] /\ Outstanding(c[1]) = c[2]

\* an event that passed every other guard deferred to the outstanding request
C15_Witness ==
    /\ EventInIdle /\ ended = "returned"
    /\ ThresholdReached(startRec) /\ BreakerClear(startRec) /\ CooldownClear(startRec)
    /\ Outstanding(transcripts[ev.sessionFile])
    /\ OnlyCounted
    /\ archives = startDisk.archives

\* C16: when validation of the archive fails in a rotation started by an
\* event, the call deletes the archive file, commits ARCHIVING -> PENDING
\* with archivePath cleared, then PENDING -> IDLE, and does not retry.
C16_RollbackDeletesArchive ==
    (EventInIdle /\ EventEnded /\ Len(trace) >= 3
       /\ SubSeq(trace, 1, 3) = <<"PENDING", "ARCHIVING", "PENDING">>)
        => /\ trace = <<"PENDING", "ARCHIVING", "PENDING", "IDLE">>
           /\ Persisted.state = "IDLE"
           /\ Persisted.archivePath = NULL
           /\ ~archives[ev.sessionFile].exists

\* a startup, given a workspace directory, that found the state `name`
StartupFrom(name) ==
    /\ handler = "startup" /\ ev.hasDir
    /\ startRec.state = name

\* the archive the startup found validates against the transcript
ArchiveValidAtStart ==
    /\ startRec.archivePath # NULL
    /\ startRec.oldSessionFile # NULL
    /\ validateArchive(startDisk.archives[startRec.archivePath],
                       transcripts[startRec.oldSessionFile])

C17_WitnessRollback ==
    /\ StartupFrom("ARCHIVING") /\ ended = "returned"
    /\ startDisk.archives[startRec.archivePath].exists
    /\ ~archives[startRec.archivePath].exists
    /\ Persisted.state = "IDLE"

LastEntry(rec) == rec.rotationHistory[Len(rec.rotationHistory)]

\* C18: a startup that finds ARCHIVED runs the inject phase only: it leaves
\* the archive alone and goes on whether or not the archive would validate;
\* every attempt generates its newSessionId anew, an attempt cut short
\* leaves the history as found, and a completed attempt has appended exactly
\* one entry, which carries the id of that attempt.
C18_StartupFromArchived ==
    /\ (StartupFrom("ARCHIVED") /\ ended # "none")
          => /\ archives = startDisk.archives
             /\ Persisted.state \in {"ARCHIVED", "INJECTED"}
                  => Persisted.rotationHistory = startRec.rotationHistory
             /\ Persisted.state # "ARCHIVED"
                  => /\ Persisted.newSessionId # NOID
                     /\ Persisted.newSessionId[1] = clock
                     /\ Persisted.newSessionId # startRec.newSessionId
    /\ (StartupFrom("ARCHIVED") /\ ended = "returned")
          => /\ trace = <<"INJECTED", "COOLDOWN">>
             /\ Len(Persisted.rotationHistory) = Len(startRec.rotationHistory) + 1
             /\ LastEntry(Persisted).newSessionId = Persisted.newSessionId
             /\ LastEntry(Persisted).oldSessionId = startRec.oldSessionId

\* a startup completed the rotation from ARCHIVED after an earlier attempt
\* had written the injection and died, the archive no longer validating
C18_Witness ==
    /\ StartupFrom("ARCHIVED") /\ ended = "returned"
    /\ startDisk.injection = startRec.triggerCompactionCount
    /\ ~validateArchive(archives[startRec.archivePath], transcripts[startRec.oldSessionFile])
    /\ Persisted.state = "COOLDOWN"
    /\ Len(Persisted.rotationHistory) = Len(startRec.rotationHistory) + 1

\* the history entry of the rotation that the record `rec` describes
EntryOf(rec, now) ==
    [rotatedAt              |-> now,
     oldSessionId           |-> rec.oldSessionId,
     newSessionId           |-> rec.newSessionId,
     triggerCompactionCount |-> rec.triggerCompactionCount,
     injectedTokensEstimate |-> rec.injectedTokensEstimate]

\* C19: a startup that finds INJECTED appends the history entry and sets
\* cooldownUntil in the one INJECTED -> COOLDOWN commit.  The entry is not
\* yet recorded while the state is INJECTED and is the last one once the
\* state is COOLDOWN, and no rotation is recorded twice (the trigger counts
\* of the entries strictly increase), wherever a crash falls.
C19_StartupFromInjected ==
    /\ (StartupFrom("INJECTED") /\ ended = "returned")
          => /\ trace = <<"COOLDOWN">>
             /\ Persisted = [startRec EXCEPT
                               !.state = "COOLDOWN",
                               !.cooldownUntil = clock + config.cooldown.minMinutes,
                               !.rotationHistory = Append(@, EntryOf(startRec, clock)),
                               !.error = NULL,
                               !.updatedAt = clock]
    /\ Persisted.state = "INJECTED"
          => \A i \in DOMAIN Persisted.rotationHistory :
                Persisted.rotationHistory[i].triggerCompactionCount
                    < Persisted.triggerCompactionCount
    /\ Persisted.state = "COOLDOWN"
          => /\ Persisted.rotationHistory # <<>>
             /\ LastEntry(Persisted).triggerCompactionCount = Persisted.triggerCompactionCount
             /\ LastEntry(Persisted).newSessionId = Persisted.newSessionId
    /\ \A i, j \in DOMAIN Persisted.rotationHistory :
          i < j => Persisted.rotationHistory[i].triggerCompactionCount
                      < Persisted.rotationHistory[j].triggerCompactionCount

\* a startup finalized, a minute or more later, a rotation whose injection
\* had been committed before a crash
C19_Witness ==
    /\ StartupFrom("INJECTED") /\ ended = "returned"
    /\ Persisted.state = "COOLDOWN"
    /\ LastEntry(Persisted) = EntryOf(startRec, clock)
    /\ startRec.newSessionId[1] < clock

\* a call the handler went through with, returned, that had found COOLDOWN
CallInCooldownReturned ==
    /\ \/ handler = "event" /\ ev.enabled /\ ev.hasDir
       \/ handler = "startup" /\ ev.hasDir
    /\ startRec.state = "COOLDOWN"
    /\ ended = "returned"

\* the call moved to IDLE iff the cooldownUntil it found had passed, and
\* committed nothing else
LazyExpiry ==
    CallInCooldownReturned
        => IF startRec.cooldownUntil # NONE /\ startRec.cooldownUntil <= clock
           THEN /\ trace = <<"IDLE">>
                /\ Persisted.state = "IDLE"
                /\ Persisted.cooldownUntil = NONE
           ELSE /\ trace = <<>>
                /\ Persisted.state = "COOLDOWN"
                /\ Persisted.cooldownUntil = startRec.cooldownUntil

C20_WitnessUnexpired ==
    /\ CallInCooldownReturned /\ handler = "startup"
    /\ startRec.cooldownUntil > clock
    /\ Persisted = startRec

(***************************************************************************)
(* Injection payload.                                                      *)
(***************************************************************************)
BuildReturned == probe.fn = "buildInjectionPayload"

\* the budget of the call: floor(contextWindow * injectionBudgetPercent *
\* backoffMultiplier), the last two in hundredths
BudgetOfCall ==
    (probe.args.cfg.contextWindow * probe.args.cfg.injectionBudgetPercent
       * getBackoffMultiplier(probe.args.state, probe.args.cfg, probe.args.now)) \div 10000

\* C21: whatever the memory, the daily logs, the transcript and the history
\* hold, the payload buildInjectionPayload returns has estimatedTokens at
\* most floor(contextWindow * injectionBudgetPercent * backoffMultiplier).
C21_PayloadWithinBudget ==
    BuildReturned => probe.result.estimatedTokens <= BudgetOfCall

\* the untruncated texts of the call
PairsOfCall ==
    extractRecentMessages(probe.args.ws.sessions,
                          IF probe.args.state.oldSessionFile = NULL THEN ""
                          ELSE probe.args.state.oldSessionFile,
                          probe.args.cfg.recentMessagePairs)

\* step k has something to cut in the untruncated texts (step 4 always)
Applicable(k) ==
    CASE k = 1 -> probe.args.ws.yesterday > 0
      [] k = 2 -> Len(PairsOfCall) > 3
      [] k = 3 -> TextChars(probe.args.ws.memory) > 0
      [] k = 4 -> TRUE

StepApplied(k) == probe.result.steps[k].applied

\* C22: truncation is ordered and stops early.  Step k (1 drop yesterday's
\* log, 2 cut the pairs to at most 3, 3 truncate the long-term memory, 4
\* drop today's log and cut the pairs to at most 1) is applied only if the
\* estimate after steps 1..k-1 exceeds the budget; within budget nothing is
\* changed; no step is applied after an applicable earlier step was skipped.
C22_TruncationOrdered ==
    BuildReturned =>
        LET r == probe.result
        IN  /\ Len(r.steps) = 4
            /\ r.steps[1].before =
                   estimatePayloadTokens(probe.args.ws.memory, probe.args.ws.today,
                                         probe.args.ws.yesterday, PairsOfCall, r.metadata)
            /\ \A k \in 1..4 : StepApplied(k) => r.steps[k].before > BudgetOfCall
            /\ \A k \in 1..3 : ~StepApplied(k) => r.steps[k + 1].before = r.steps[k].before
            /\ r.steps[1].before <= BudgetOfCall =>
                   /\ r.longTermMemory = probe.args.ws.memory
                   /\ r.todayLog = probe.args.ws.today
                   /\ r.yesterdayLog = probe.args.ws.yesterday
                   /\ r.recentMessages = PairsOfCall
                   /\ r.estimatedTokens = r.steps[1].before
            /\ \A j \in 1..4, k \in 1..4 :
                   (j < k /\ StepApplied(k) /\ ~StepApplied(j)) => ~Applicable(j)
            /\ StepApplied(1) => r.yesterdayLog = 0
            /\ StepApplied(2) => Len(r.recentMessages) <= 3
            /\ StepApplied(3) => r.longTermMemory = truncateMemory(probe.args.ws.memory)
            /\ StepApplied(4) => r.todayLog = 0 /\ Len(r.recentMessages) <= 1
            /\ ~StepApplied(3) => r.longTermMemory = probe.args.ws.memory
            /\ ~StepApplied(4) => r.todayLog = probe.args.ws.today

\* a call over budget that stops after steps 1 and 2
C22_Witness ==
    /\ BuildReturned
    /\ StepApplied(1) /\ StepApplied(2) /\ ~StepApplied(3) /\ ~StepApplied(4)
    /\ Applicable(3)

\* a call within budget, with every text present
C22_WitnessUntouched ==
    /\ BuildReturned
    /\ \A k \in 1..4 : ~StepApplied(k)
    /\ \A k \in 1..3 : Applicable(k)

\* a call that stops after step 1
C22_WitnessStep1 ==
    BuildReturned /\ StepApplied(1) /\ \A k \in 2..4 : ~StepApplied(k) /\ Applicable(k)

\* a call that stops after step 3, step 2 having nothing to cut
C22_WitnessStep3 ==
    BuildReturned /\ StepApplied(1) /\ StepApplied(3) /\ ~StepApplied(4)

\* a call that runs all four steps
C22_WitnessStep4 ==
    BuildReturned /\ \A k \in 1..4 : StepApplied(k)

\* a call that skips steps 1 and 2, having nothing to cut there, and runs 3
C22_WitnessSkipped ==
    BuildReturned /\ ~StepApplied(1) /\ ~StepApplied(2) /\ StepApplied(3)

(***************************************************************************)
(* Backoff.                                                                *)
(***************************************************************************)
\* history entries of the call that lie within the trailing window
EntriesInWindow ==
    {i \in 1..Len(probe.args.state.rotationHistory) :
        probe.args.now - probe.args.state.rotationHistory[i].rotatedAt
            < probe.args.cfg.circuitBreaker.windowMinutes}

\* the multiplier, in hundredths, the claim gives for the call
ClaimedMultiplier ==
    CASE Cardinality(EntriesInWindow) = 0 -> 100
      [] Cardinality(EntriesInWindow) = 1 -> 67
      [] OTHER -> 33

\* C23: getBackoffMultiplier returns 1.0 when no history entry lies within
\* the trailing circuitBreaker.windowMinutes, 0.67 when exactly one does and
\* 0.33 when two or more do, entries outside the window not being counted;
\* the budget of a payload is computed with the multiplier at the time of
\* the call of buildInjectionPayload.
C23_BackoffMultiplier ==
    /\ probe.fn = "getBackoffMultiplier" => probe.result = ClaimedMultiplier
    /\ BuildReturned =>
           probe.result.tokenBudget =
               (probe.args.cfg.contextWindow * probe.args.cfg.injectionBudgetPercent
                  * ClaimedMultiplier) \div 10000

\* three entries, two of them inside the window and one outside: 0.33
C23_Witness ==
    /\ probe.fn = "getBackoffMultiplier"
    /\ Len(probe.args.state.rotationHistory) = 3
    /\ Cardinality(EntriesInWindow) = 2
    /\ probe.result = 33

\* one entry, outside the window: 1.0
C23_WitnessOutside ==
    /\ probe.fn = "getBackoffMultiplier"
    /\ Len(probe.args.state.rotationHistory) = 1
    /\ EntriesInWindow = {}
    /\ probe.result = 100

\* a payload built with one entry inside the window and one outside: the
\* budget is cut to 0.67
C23_WitnessBudget ==
    /\ BuildReturned
    /\ Len(probe.args.state.rotationHistory) = 2
    /\ Cardinality(EntriesInWindow) = 1
    /\ probe.result.tokenBudget = 20100

(***************************************************************************)
(* Archive validation.                                                     *)
(***************************************************************************)
\* positions of the records (non-empty lines) of a file
RecordsOf(file) == {i \in 1..Len(file.lines) : file.lines[i] # "blank"}

Least(S) == CHOOSE i \in S : \A j \in S : i <= j
Greatest(S) == CHOOSE i \in S : \A j \in S : i >= j

\* the file's records, in order
RecordSeq(file) == SelectSeq(file.lines, LAMBDA l : l # "blank")

RECURSIVE IsSubsequence(_, _)
\* a is b with zero or more elements left out
IsSubsequence(a, b) ==
    IF a = <<>> THEN TRUE
    ELSE IF b = <<>> THEN FALSE
    ELSE IF Head(a) = Head(b) THEN IsSubsequence(Tail(a), Tail(b))
    ELSE IsSubsequence(a, Tail(b))

ValidateReturned == probe.fn = "validateArchive"

\* the archive is the original with records cut off its end
ArchiveTruncated ==
    /\ probe.args.archive.exists /\ probe.args.original.exists
    /\ Len(RecordSeq(probe.args.archive)) < Len(RecordSeq(probe.args.original))
    /\ IsPrefix(RecordSeq(probe.args.archive), RecordSeq(probe.args.original))

\* the archive is the original with records inserted
ArchiveInserted ==
    /\ probe.args.archive.exists /\ probe.args.original.exists
    /\ Len(RecordSeq(probe.args.archive)) > Len(RecordSeq(probe.args.original))
    /\ IsSubsequence(RecordSeq(probe.args.original), RecordSeq(probe.args.archive))

\* C24: validateArchive(archive, original) returns true if and only if the
\* archive exists, has at least one non-empty record, its first and its
\* last record parse as JSON, and it has as many records as the original;
\* an archive with records cut off or inserted is not valid.
C24_ValidateArchive ==
    ValidateReturned =>
        LET a == probe.args.archive
            o == probe.args.original
        IN  /\ probe.result <=>
                  /\ a.exists
                  /\ RecordsOf(a) # {}
                  /\ Parses(a.lines[Least(RecordsOf(a))])
                  /\ Parses(a.lines[Greatest(RecordsOf(a))])
                  /\ Cardinality(RecordsOf(a)) = Cardinality(RecordsOf(o))
            /\ (ArchiveTruncated \/ ArchiveInserted) => ~probe.result

\* a complete copy of an original of three records is valid
C24_Witness ==
    /\ ValidateReturned
    /\ probe.result
    /\ probe.args.archive = probe.args.original
    /\ Cardinality(RecordsOf(probe.args.original)) = 3

\* a copy that lost its last record, all its records parsing, is not valid
C24_WitnessTruncated ==
    /\ ValidateReturned
    /\ ArchiveTruncated
    /\ \A i \in RecordsOf(probe.args.archive) : Parses(probe.args.archive.lines[i])
    /\ RecordsOf(probe.args.archive) # {}
    /\ ~probe.result

\* a copy with one more record than the original is not valid
C24_WitnessInserted ==
    /\ ValidateReturned
    /\ ArchiveInserted
    /\ \A i \in RecordsOf(probe.args.archive) : Parses(probe.args.archive.lines[i])
    /\ ~probe.result

\* same count but a last record that does not parse: not valid
C24_WitnessBadLast ==
    /\ ValidateReturned
    /\ Cardinality(RecordsOf(probe.args.archive)) = Cardinality(RecordsOf(probe.args.original))
    /\ RecordsOf(probe.args.archive) # {}
    /\ Parses(probe.args.archive.lines[Least(RecordsOf(probe.args.archive))])
    /\ ~probe.result

(***************************************************************************)
(* Injection message.                                                      *)
(***************************************************************************)
FormatReturned == probe.fn = "formatInjectionMessage"

\* the section is among the strings of the message
Emitted(section) == \E i \in 1..Len(probe.result) : probe.result[i] = section

\* C25: formatInjectionMessage emits the header of the long-term memory, of
\* today's log, of yesterday's log and of the recent conversation if and
\* only if that field of the payload is not empty; the system banner, the
\* inherited-memory header, the rotation-context subsection and the closing
\* line are always there.
C25_HeadersFollowFields ==
    FormatReturned =>
        LET payload == probe.args.payload
        IN  /\ Emitted("longTermMemory") <=> TextChars(payload.longTermMemory) > 0
            /\ Emitted("todayLog") <=> payload.todayLog > 0
            /\ Emitted("yesterdayLog") <=> payload.yesterdayLog > 0
            /\ Emitted("recentConversation") <=> Len(payload.recentMessages) > 0
            /\ Emitted("banner") /\ Emitted("inheritedMemory")
            /\ Emitted("rotationContext") /\ Emitted("closing")

\* a payload with today's log and a conversation but neither memory nor
\* yesterday's log
C25_Witness ==
    /\ FormatReturned
    /\ TextChars(probe.args.payload.longTermMemory) = 0
    /\ probe.args.payload.todayLog > 0
    /\ probe.args.payload.yesterdayLog = 0
    /\ Len(probe.args.payload.recentMessages) > 0
    /\ Emitted("todayLog") /\ ~Emitted("yesterdayLog")

\* a payload with nothing but the metadata
C25_WitnessBare ==
    /\ FormatReturned
    /\ TextChars(probe.args.payload.longTermMemory) = 0
    /\ probe.args.payload.todayLog = 0
    /\ probe.args.payload.yesterdayLog = 0
    /\ Len(probe.args.payload.recentMessages) = 0
    /\ Emitted("closing")

SectionOrder ==
    <<"banner", "inheritedMemory", "longTermMemory", "todayLog", "yesterdayLog",
      "recentConversation", "rotationContext", "closing">>

PlacesOf(section) == {i \in 1..Len(probe.result) : probe.result[i] = section}

\* C26: the sections of the message come in the fixed order system banner,
\* inherited-memory header, long-term memory, today's log, yesterday's log,
\* recent conversation, rotation context, closing line, each at most once,
\* the omitted ones skipped.
C26_SectionOrder ==
    FormatReturned =>
        /\ \A a \in 1..Len(SectionOrder) : Cardinality(PlacesOf(SectionOrder[a])) <= 1
        /\ \A a \in 1..Len(SectionOrder), b \in 1..Len(SectionOrder) :
               a < b => \A i \in PlacesOf(SectionOrder[a]), j \in PlacesOf(SectionOrder[b]) :
                            i < j
        /\ probe.result[1] = "banner"
        /\ probe.result[Len(probe.result)] = "closing"

\* a message with all eight sections
C26_Witness ==
    /\ FormatReturned
    /\ \A a \in 1..Len(SectionOrder) : Emitted(SectionOrder[a])

(***************************************************************************)
(* Message extraction.                                                     *)
(***************************************************************************)
ExtractReturned == probe.fn = "extractRecentMessages"

RECURSIVE ClaimedScan(_, _, _, _, _)
\* the pairs the claim describes: from line i backward, `pending` is the
\* place of the latest assistant record not yet paired (0 for none)
ClaimedScan(lines, i, count, pending, pairs) ==
    IF i < 1 \/ Len(pairs) >= count THEN pairs
    ELSE IF lines[i].role = "assistant" /\ pending = 0
    THEN ClaimedScan(lines, i - 1, count, i, pairs)
    ELSE IF lines[i].role = "user" /\ pending # 0
    THEN ClaimedScan(lines, i - 1, count, 0,
                     <<[user |-> lines[i].content, assistant |-> lines[pending].content]>>
                        \o pairs)
    ELSE ClaimedScan(lines, i - 1, count, pending, pairs)

ClaimedPairs ==
    LET file == probe.args.files["s1"]
    IN  IF probe.args.sessionFile = "" \/ ~file.exists \/ file.lines = <<>> THEN <<>>
        ELSE ClaimedScan(file.lines, Len(file.lines), probe.args.count, 0, <<>>)

\* C27: extractRecentMessages(file, N) returns at most N pairs, in the order
\* of the transcript, the most recent ones: scanning backward from the end,
\* each pair joins the latest assistant record not yet paired with the
\* nearest user record before it; the list is empty for an empty path, a
\* missing file and an empty file.
C27_RecentPairs ==
    ExtractReturned =>
        /\ Len(probe.result) <= probe.args.count
        /\ probe.result = ClaimedPairs

\* the same, for transcripts whose assistant records all have a content
C27_RecentPairsNonEmptyContent ==
    (ExtractReturned /\ \A i \in 1..Len(probe.args.files["s1"].lines) :
                            probe.args.files["s1"].lines[i].content # 0)
        => probe.result = ClaimedPairs

(***************************************************************************)
(* The original transcript and the archive.                                *)
(***************************************************************************)
\* a step of the host between two calls: the clock or a transcript write
HostStep == pc = "idle" /\ pc' = "idle" /\ handler' = "none"

\* the call wrote the injection file
InjectionWritten == \E i \in 1..Len(trace) : trace[i] = "INJECTED"

C28_WitnessStartup ==
    /\ StartupFrom("ARCHIVING") /\ ended = "returned"
    /\ startDisk.archives[startRec.archivePath].exists
    /\ ~archives[startRec.archivePath].exists
    /\ transcripts[startRec.oldSessionFile] = FileOf(<<"user", "asst">>)

\* a rotation of session s has completed: the history has its entry
RotationCompleted(s) ==
    \E i \in 1..Len(Persisted.rotationHistory) :
        Persisted.rotationHistory[i].oldSessionId = s

\* C29: archived data is never lost: once a rotation of a session has
\* completed, no later step (event, rotation of the same session id,
\* startup recovery) deletes the archive file or replaces it by content
\* that lacks records it held.
C29_ArchiveNeverLost ==
    [][\A s \in Sessions :
          (RotationCompleted(s) /\ archives[s].exists)
              => /\ archives'[s].exists
                 /\ IsSubsequence(RecordSeq(archives[s]), RecordSeq(archives'[s]))]_vars

(***************************************************************************)
(* The persisted error field.                                              *)
(***************************************************************************)
\* a rotation started by an event failed validation and rolled back
RotationRolledBack ==
    /\ handler = "event" /\ ended = "returned"
    /\ trace = <<"PENDING", "ARCHIVING", "PENDING", "IDLE">>

\* a startup found ARCHIVING with an invalid archive and fell back to IDLE
StartupRolledBack ==
    /\ StartupFrom("ARCHIVING") /\ ended = "returned"
    /\ ~ArchiveValidAtStart

\* the step replaces the state file by a new complete record
Committed == fs'[statePath] # fs[statePath] /\ fs'[statePath].kind = "ok"

\* the commit that ends a rollback, PENDING -> IDLE
RollbackCommitted == Persisted.state = "PENDING" /\ PersistedNext.state = "IDLE"

\* C30: on every recoverable archive failure, a validation failure in a
\* rotation or an invalid archive found by startup recovery, the failure is
\* recorded in the persisted error field, and the next committed step that
\* is not itself a rollback clears the field.
C30_ErrorRecordedAndCleared ==
    /\ []((RotationRolledBack \/ StartupRolledBack) => Persisted.error # NULL)
    /\ [][(Persisted.error # NULL /\ Committed /\ ~RollbackCommitted)
             => PersistedNext.error = NULL]_vars

\* the part of C30 about rotations alone
C30_RotationFailureRecorded ==
    RotationRolledBack => Persisted.error = "Archive validation failed"

\* the part of C30 about startup recovery alone
C30_StartupFailureRecorded ==
    StartupRolledBack => Persisted.error # NULL

\* the part of C30 about clearing alone
C30_ClearedByNextCommit ==
    [][(Persisted.error # NULL /\ Committed /\ ~RollbackCommitted)
          => PersistedNext.error = NULL]_vars

(***************************************************************************)
(* Interleaved invocations.                                                *)
(***************************************************************************)
\* the invocations that performed IDLE -> PENDING
Rotating == {p \in Racers : probe.procs[p].pc = "rotating"}

RaceOver == \A p \in Racers : probe.procs[p].pc \in {"done", "threw", "rotating"}

\* C31: the persisted state is the lock: when two onAfterCompaction
\* invocations for one agent directory interleave between their reads and
\* writes of the state file, at most one of them performs IDLE -> PENDING
\* and runs a rotation, and no counter increment is lost.
C31_StateIsTheLock ==
    probe.fn = "race" =>
        /\ Cardinality(Rotating) <= 1
        /\ RaceOver =>
               Persisted.cumulativeCompactionCount = probe.start + Cardinality(Racers)

\* the first half of C31 alone
C31_OneRotation == probe.fn = "race" => Cardinality(Rotating) <= 1

\* the second half of C31 alone
C31_NoIncrementLost ==
    (probe.fn = "race" /\ RaceOver) =>
        Persisted.cumulativeCompactionCount = probe.start + Cardinality(Racers)


(***************************************************************************)
(* Budget and truncation of the payload.                                   *)
(***************************************************************************)
\* the payload of the same call with an empty rotation history, that is
\* under the full budget
FullBudgetPayload ==
    buildInjectionPayload(probe.args.cfg, probe.args.ws,
                          [probe.args.state EXCEPT !.rotationHistory = <<>>],
                          probe.args.now)

\* C32: for the same memory, logs and transcript, the payload built with a
\* history of recent rotations (a reduced budget) has estimatedTokens at
\* most the estimatedTokens of the payload built with an empty history
\* (the full budget).
C32_ReducedBudgetNotLarger ==
    BuildReturned => probe.result.estimatedTokens <= FullBudgetPayload.estimatedTokens


TruncateReturned == probe.fn = "truncateMemory"

\* the number of lines of the text given to truncateMemory
LinesOfCall == Len(probe.args.text)

\* the places of the result that hold the given line of the text
PlacesOfLine(i) == {k \in 1..Len(probe.result) : probe.result[k] = probe.args.text[i]}

\* C33: for a memory text of n >= 1 lines truncateMemory keeps the first
\* floor(0.7 n) lines and the lines from index floor(0.8 n) to the end, in
\* their order and joined by the truncation marker, discards only the lines
\* between, and repeats no line.
C33_TruncateMemoryKeeps ==
    TruncateReturned =>
        LET n    == LinesOfCall
            head == (7 * n) \div 10
            tail == (8 * n) \div 10
        IN  /\ probe.result = SubSeq(probe.args.text, 1, head) \o TruncationMarker
                                \o SubSeq(probe.args.text, tail + 1, n)
            /\ \A i \in 1..n : Cardinality(PlacesOfLine(i)) <= 1
            /\ \A i \in 1..n : (i <= head \/ i > tail) <=> PlacesOfLine(i) # {}

\* C33 with the head as the code computes it: Math.floor(n * 0.7) in double
\* precision, which is floor(0.7 n) but for n = 90 (and 170, 180 below 330),
\* where it is one less and line floor(0.7 n) is discarded as well.  The
\* kept lines are in order around the marker and none is repeated.
C33_TruncateMemoryKeepsRounded ==
    TruncateReturned =>
        LET n    == LinesOfCall
            head == (7 * n) \div 10 - (IF n \in {90, 170, 180} THEN 1 ELSE 0)
            tail == (8 * n) \div 10
        IN  /\ head <= tail
            /\ probe.result = SubSeq(probe.args.text, 1, head) \o TruncationMarker
                                \o SubSeq(probe.args.text, tail + 1, n)
            /\ \A i \in 1..n : Cardinality(PlacesOfLine(i)) <= 1
            /\ \A i \in 1..n : (i <= head \/ i > tail) <=> PlacesOfLine(i) # {}

\* a text of 90 lines truncated: 62 lines, the marker, 18 lines
C33_Witness ==
    /\ TruncateReturned
    /\ LinesOfCall = 90
    /\ Len(probe.result) = 62 + Len(TruncationMarker) + 18

\* a text of one line: the marker, then the line
C33_WitnessOneLine ==
    TruncateReturned /\ LinesOfCall = 1 /\ probe.result = TruncationMarker \o probe.args.text


\* the estimate after step k: the one before step k + 1, or the returned one
EstimateAfter(k) ==
    IF k < 4 THEN probe.result.steps[k + 1].before ELSE probe.result.estimatedTokens

\* C34: each truncation step buildInjectionPayload applies leaves the
\* estimated total no larger than it was before that step, for every input
\* (a long-term memory of one or two lines included).
C34_StepsNeverGrow ==
    BuildReturned =>
        \A k \in 1..4 : StepApplied(k) => EstimateAfter(k) <= probe.result.steps[k].before

\* steps 1, 2 and 4 only remove text: they never grow the estimate
C34_OtherStepsNeverGrow ==
    BuildReturned =>
        \A k \in {1, 2, 4} :
            StepApplied(k) => EstimateAfter(k) <= probe.result.steps[k].before


(***************************************************************************)
(* Shape of the persisted record.                                          *)
(***************************************************************************)
\* C35: in every persisted record, state = IDLE implies cooldownUntil is
\* null, and state = COOLDOWN implies cooldownUntil is not null and
\* rotationHistory is not empty.
C35_CooldownFieldsMatchState ==
    /\ Persisted.state = "IDLE" => Persisted.cooldownUntil = NONE
    /\ Persisted.state = "COOLDOWN" =>
           /\ Persisted.cooldownUntil # NONE
           /\ Persisted.rotationHistory # <<>>

\* a record back in IDLE after a cooldown ran out
C35_Witness ==
    /\ Persisted.state = "IDLE"
    /\ Persisted.rotationHistory # <<>>
    /\ Persisted.cooldownUntil = NONE

\* a record in COOLDOWN
C35_WitnessCooldown ==
    /\ Persisted.state = "COOLDOWN"
    /\ Persisted.cooldownUntil > 0
    /\ Len(Persisted.rotationHistory) = 1

InFlight == {"PENDING", "ARCHIVING", "ARCHIVED", "INJECTED"}

\* C36: in every persisted record, state in {PENDING, ARCHIVING, ARCHIVED,
\* INJECTED} implies oldSessionId, oldSessionFile, startedAt and
\* triggerCompactionCount are not null; state in {ARCHIVING, ARCHIVED,
\* INJECTED} implies archivePath is not null; state = INJECTED implies
\* newSessionId and injectedTokensEstimate are not null.
C36_InFlightFieldsSet ==
    /\ Persisted.state \in InFlight =>
           /\ Persisted.oldSessionId # NULL
           /\ Persisted.oldSessionFile # NULL
           /\ Persisted.startedAt # NONE
           /\ Persisted.triggerCompactionCount # NONE
    /\ Persisted.state \in {"ARCHIVING", "ARCHIVED", "INJECTED"} =>
           Persisted.archivePath # NULL
    /\ Persisted.state = "INJECTED" =>
           /\ Persisted.newSessionId # NOID
           /\ Persisted.injectedTokensEstimate # NONE

\* a record in INJECTED with every field of the rotation set
C36_Witness ==
    /\ Persisted.state = "INJECTED"
    /\ Persisted.archivePath \in Sessions
    /\ Persisted.newSessionId \in {<<t, r>> : t \in 0..MaxTime, r \in Randoms}
    /\ Persisted.injectedTokensEstimate \in Estimates

\* a record in PENDING left by a startup that removed a partial archive
C36_WitnessPendingWithoutArchive ==
    /\ Persisted.state = "PENDING"
    /\ Persisted.archivePath = NULL
    /\ handler = "startup"
    /\ Persisted.oldSessionFile \in Sessions


(***************************************************************************)
(* Cooldown, circuit breaker and the rotation history.                     *)
(***************************************************************************)
\* cooldown.minMinutes >= circuitBreaker.windowMinutes, as in the default
\* configuration
CooldownCoversWindow == config.cooldown.minMinutes >= config.circuitBreaker.windowMinutes

\* the event has reached the guards and the cooldown guard lets it through
CooldownLetsThrough ==
    /\ pc = "guards"
    /\ ~isInCooldown(cur, config, cur.cumulativeCompactionCount, clock)

\* C37: with cooldown.minMinutes >= circuitBreaker.windowMinutes, whenever
\* the cooldown guard lets an event through no history entry lies inside
\* the breaker window, so the circuit breaker does not block it, and the
\* backoff multiplier of a rotation that builds its payload is 1.0.
C37_CooldownSubsumesBreaker ==
    CooldownCoversWindow =>
        /\ CooldownLetsThrough =>
               /\ RecentRotations(cur, config, clock) = {}
               /\ checkCircuitBreaker(cur, config, clock)
        /\ pc = "inject" => getBackoffMultiplier(cur, config, clock) = 100

\* a later event passes the cooldown guard with a rotation in the history
C37_Witness ==
    /\ CooldownCoversWindow
    /\ CooldownLetsThrough
    /\ cur.state = "IDLE"
    /\ cur.rotationHistory # <<>>
    /\ ~belowThreshold(cur.cumulativeCompactionCount, config)

\* a second rotation builds its payload
C37_WitnessSecondRotation ==
    /\ CooldownCoversWindow
    /\ pc = "inject"
    /\ cur.rotationHistory # <<>>

\* without the premise the breaker does block events the cooldown lets through
C37_WithoutPremise ==
    CooldownLetsThrough => checkCircuitBreaker(cur, config, clock)


\* the commits to COOLDOWN of the call running or last run
ReachedCooldown == {i \in 1..Len(trace) : trace[i] = "COOLDOWN"}

\* the counter value of the event that started the rotation the call works
\* on: its own count if it found IDLE, else the one the record carries
TriggerOfCall ==
    IF startRec.state = "IDLE" THEN startRec.cumulativeCompactionCount + 1
    ELSE startRec.triggerCompactionCount

\* C38: the history has one entry for each rotation that reached COOLDOWN.
\* In every call, whatever crashes and startups came before, the persisted
\* history is the one the call found plus one entry per commit to COOLDOWN
\* it made; the entry's triggerCompactionCount is the cumulative counter of
\* the event that started the rotation, which the record carries unchanged
\* while the rotation is in flight; no two entries record the same rotation.
C38_HistoryCountsRotations ==
    handler # "none" =>
        LET before == startRec.rotationHistory
            after  == Persisted.rotationHistory
        IN  /\ Len(after) = Len(before) + Cardinality(ReachedCooldown)
            /\ SubSeq(after, 1, Len(before)) = before
            /\ ReachedCooldown # {} =>
                   after[Len(after)].triggerCompactionCount = TriggerOfCall
            /\ (handler = "event" /\ startRec.state = "IDLE" /\ Persisted.state \in InFlight) =>
                   /\ Persisted.triggerCompactionCount = TriggerOfCall
                   /\ Persisted.triggerCompactionCount = Persisted.cumulativeCompactionCount
            /\ (startRec.state \in InFlight /\ Persisted.state \in InFlight) =>
                   Persisted.triggerCompactionCount = startRec.triggerCompactionCount
            /\ \A i \in 1..Len(after), j \in 1..Len(after) :
                   i < j => after[i].triggerCompactionCount < after[j].triggerCompactionCount

\* a startup completed a rotation found in flight, after further events had
\* advanced the counter: the entry carries the count of the starting event
C38_Witness ==
    /\ handler = "startup" /\ ended = "returned"
    /\ startRec.state \in {"ARCHIVED", "INJECTED"}
    /\ ReachedCooldown # {}
    /\ Len(Persisted.rotationHistory) = Len(startRec.rotationHistory) + 1
    /\ Persisted.cumulativeCompactionCount
           > Persisted.rotationHistory[Len(Persisted.rotationHistory)].triggerCompactionCount

\* an event ran a second rotation to COOLDOWN
C38_WitnessSecondEntry ==
    /\ handler = "event" /\ ended = "returned"
    /\ ReachedCooldown # {}
    /\ Len(Persisted.rotationHistory) = 2
    /\ Persisted.rotationHistory[2].triggerCompactionCount = 2


\* C39: any two consecutive rotationHistory entries are spaced by both
\* floors of the cooldown: their rotatedAt differ by at least
\* cooldown.minMinutes and their triggerCompactionCount by at least
\* cooldown.minCompactions, over events, rollbacks and recoveries.
C39_EntriesSpaced ==
    \A i \in 1..(Len(Persisted.rotationHistory) - 1) :
        LET earlier == Persisted.rotationHistory[i]
            later   == Persisted.rotationHistory[i + 1]
        IN  /\ later.rotatedAt - earlier.rotatedAt >= config.cooldown.minMinutes
            /\ later.triggerCompactionCount - earlier.triggerCompactionCount
                   >= config.cooldown.minCompactions

\* two rotations are recorded, the second one completed by a startup
C39_Witness ==
    /\ Len(Persisted.rotationHistory) = 2
    /\ handler = "startup"
    /\ ReachedCooldown # {}

\* two rotations are recorded under a cooldown of two minutes
C39_WitnessTwoMinutes ==
    /\ Len(Persisted.rotationHistory) = 2
    /\ config.cooldown.minMinutes = 2
    /\ Persisted.rotationHistory[2].rotatedAt - Persisted.rotationHistory[1].rotatedAt = 2

\* a rotation was rolled back between the two recorded ones
C39_WitnessAfterRollback ==
    /\ Len(Persisted.rotationHistory) = 1
    /\ Persisted.state = "IDLE"
    /\ Persisted.error # NULL


(***************************************************************************)
(* Recovery leads to a further rotation.                                   *)
(***************************************************************************)
\* onGatewayStartup has run and returned
Recovered == handler = "startup" /\ ended = "returned"

\* an event has committed IDLE -> PENDING
RotationStarts == handler = "event" /\ Len(trace) > 0 /\ trace[1] = "PENDING"

\* the model's bounds keep the event or the minute from arriving that a
\* record in IDLE or COOLDOWN is waiting for
Exhausted ==
    /\ Persisted.state \in {"IDLE", "COOLDOWN"}
    /\ \/ Persisted.cumulativeCompactionCount = MaxCount
       \/ clock = MaxTime

\* C40: whatever a crash left persisted, once onGatewayStartup has run, and
\* with events arriving, time advancing and no further crash, the state
\* eventually returns to IDLE and a further rotation eventually starts.
C40_RecoveryLeadsToRotation ==
    /\ Recovered ~> (Persisted.state = "IDLE" \/ Down \/ Exhausted)
    /\ Recovered ~> (RotationStarts \/ Down \/ Exhausted)

\* the startup found ARCHIVING with a complete archive
FoundRecoverable ==
    /\ startRec.state = "ARCHIVING"
    /\ trace = <<"ARCHIVED">>

\* the same of every startup but the one that found ARCHIVING with a
\* complete archive
C40_OtherRecoveriesLeadToRotation ==
    /\ (Recovered /\ ~FoundRecoverable) ~> (Persisted.state = "IDLE" \/ Down \/ Exhausted)
    /\ (Recovered /\ ~FoundRecoverable) ~> (RotationStarts \/ Down \/ Exhausted)

\* a startup returns leaving ARCHIVED
C40_StartupLeavesArchived ==
    Recovered /\ FoundRecoverable /\ Persisted.state = "ARCHIVED"

\* an event that finds a rotation in flight commits no transition: it
\* returns with the state as found, whatever the counter and the clock
C40_InFlightOutlastsEvents ==
    (handler = "event" /\ startRec.state \in InFlight /\ ended = "returned")
        => /\ Persisted.state = startRec.state
           /\ trace = <<>>

\* a rotation starts after a startup put the record back to IDLE
C40_RotationAfterRecovery ==
    /\ RotationStarts
    /\ startRec.state = "IDLE"
    /\ startRec.error = NULL
    /\ startRec.startedAt # NONE
    /\ startRec.rotationHistory = <<>>

====
